---- MODULE Spec2Model ----
(***************************************************************************)
(* Model of the stock_api_v2 backtesting core: the deferred-execution      *)
(* trade loop of TradingSimulator, its 50-bar gate, and the filter / sort  *)
(* / truncate stage of MarketScanner.                                      *)
(*                                                                         *)
(* Numbers.  The program computes in binary floating point.  The model     *)
(* computes in fixed point, rounding every product and quotient to the     *)
(* nearest unit:                                                           *)
(*   money    in units of 1/MoneyScale dollar  (0.0001 $)                  *)
(*   prices   in units of 1/PriceScale dollar  (0.001 $)                   *)
(*   shares   in units of 1/ShareScale share   (0.00001 share)             *)
(* round(x, 2) and round(x, 4) of the program are RoundTo on these units,  *)
(* so a logged (rounded) value can differ from the value computed with.    *)
(* Bar indices are 0-based as in the program; sequence position i+1 holds  *)
(* bar i.                                                                  *)
(***************************************************************************)
EXTENDS Integers, Sequences, FiniteSets, TLC

VARIABLES
    df,            \* the bar series handed to _execute_trades
    buy_signals,   \* 0/1 per bar
    sell_signals,  \* 0/1 per bar
    et,            \* the frame (locals and position) of _execute_trades
    accepted,      \* history: the signals that created a pending order
    sim,           \* the call of simulate: its arguments, position and result
    request,       \* the arguments of scan and what _scan_stocks returned
    scan,          \* the frame of scan: position, local results, return value
    settings,      \* the Settings object of app.core.config
    scanner,       \* the fields of the MarketScanner instance
    detector       \* the call of SignalDetector under study

tradeVars == <<df, buy_signals, sell_signals, et, accepted>>

scanVars == <<request, scan>>

\* what neither the trade loop nor the tail of scan touches
otherVars == <<settings, scanner, detector>>

vars == <<df, buy_signals, sell_signals, et, accepted, sim, request, scan,
          settings, scanner, detector>>

-----------------------------------------------------------------------------
(* Bounds of the model *)

\* longest bar series the trade loop is run on
MaxBars == 6

\* number of price series (offsets into BasePrices) tried
NumSeries == 2

\* simulate is called on series of MinSimBars - SimSlack .. MinSimBars +
\* SimSlack bars (and on the empty series)
SimSlack == 1

\* most results _scan_stocks hands to the filter / sort / truncate stage
MaxResults == 3

\* largest top_n tried
MaxTopN == 3

-----------------------------------------------------------------------------
(* Fixed-point arithmetic *)

MoneyScale == 100 * 100

PriceScale == 10 * 100

ShareScale == 10 * MoneyScale

\* round(a * b / c) for a, b >= 0 and 0 < c, without an intermediate
\* product larger than c * c
MulDiv(a, b, c) ==
    LET qa == a \div c
        ra == a % c
        qb == b \div c
        rb == b % c
    IN  qa * b + ra * qb + ((ra * rb + (c \div 2)) \div c)

\* Python round(x, ndigits): to the nearest multiple of m, ties to even
RoundTo(x, m) ==
    LET q == x \div m
        r == x % m
    IN  IF 2 * r < m THEN q * m
        ELSE IF 2 * r > m THEN (q + 1) * m
        ELSE IF q % 2 = 0 THEN q * m ELSE (q + 1) * m

\* round(<money>, 2)
Round2(x) == RoundTo(x, MoneyScale \div 100)

\* round(<price>, 2)
Round2P(p) == RoundTo(p, PriceScale \div 100)

\* round(<shares>, 4)
Round4(s) == RoundTo(s, ShareScale \div 10000)

\* settings.initial_balance = 10000.0
initial_balance == 10000 * MoneyScale

\* settings.commission_rate = 0.001, as numerator and denominator
commission_rate == <<1, 1000>>

\* amount * commission_rate
Times(amount, rate) == MulDiv(amount, rate[1], rate[2])

\* money / price, in share units
SharesFor(money, price) ==
    MulDiv(money, (PriceScale * ShareScale) \div MoneyScale, price)

\* shares * price, in money units
ValueOf(shares, price) ==
    MulDiv(shares, price, (PriceScale * ShareScale) \div MoneyScale)

-----------------------------------------------------------------------------
(* Bar series *)

\* A timestamp of the index: a calendar day and the exchange time zone.
Stamp(day) == [day |-> day, tz |-> "America/New_York"]

\* Trading days: five bars a week, the weekend skipped.
DayOf(i) == i + 2 * (i \div 5)

\* One cycle of prices (in price units); some are not whole cents.
BasePrices ==
    << [Open |-> 10000, Close |-> 10496],
       [Open |-> 12346, Close |-> 11000],
       [Open |->  9994, Close |-> 10000],
       [Open |-> 20004, Close |-> 15000],
       [Open |-> 10000, Close |->  9000],
       [Open |->  8000, Close |-> 12346] >>

\* The series of n bars that starts at offset k of the cycle.
MkSeries(n, k) ==
    [j \in 1..n |->
        LET p == BasePrices[((j - 1 + k) % Len(BasePrices)) + 1]
        IN  [Date |-> Stamp(DayOf(j - 1)), Open |-> p.Open, Close |-> p.Close]]

\* df['Open'].iloc[i], df['Close'].iloc[i], df.index[i]
Open(d, i) == d[i + 1].Open

Close(d, i) == d[i + 1].Close

Index(d, i) == d[i + 1].Date

-----------------------------------------------------------------------------
(* TradingSimulator._execute_trades *)

NoDate == [day |-> -1, tz |-> "None"]

\* _format_date: strftime('%Y-%m-%d %H:%M:%S') keeps the calendar day and
\* drops the time zone
FormatDate(date) == [ymd |-> date.day]

\* the signal_date of the forced final close
EndOfPeriodLabel == [text |-> "End of period"]

\* the locals at entry to the bar loop; profit_loss is bound by the first
\* SELL and stands at 0 until then
InitFrame ==
    [ pc            |-> "loop",
      i             |-> 0,
      trades        |-> << >>,
      balance       |-> initial_balance,
      shares        |-> 0,
      position_open |-> FALSE,
      buy_price     |-> 0,
      buy_date      |-> NoDate,
      pending_buy   |-> FALSE,
      pending_sell  |-> FALSE,
      signal_date   |-> NoDate,
      profit_loss   |-> 0 ]

\* execution_price = df['Open'].iloc[i]: the fill price of a pending order
ExecutionPriceAtSignalClose(d, i) == Close(d, i - 1)

ExecutionPrice(d, i) == Open(d, i)

\* the BUY fill of one loop pass
FillBuy(f, d) ==
    LET i == f.i
        current_date == Index(d, i)
        execution_price == ExecutionPrice(d, i)
        commission == Times(f.balance, commission_rate)
        shares == SharesFor(f.balance - commission, execution_price)
    IN  [f EXCEPT
            !.shares = shares,
            !.buy_price = execution_price,
            !.buy_date = current_date,
            !.position_open = TRUE,
            !.pending_buy = FALSE,
            !.trades = Append(@,
                [ type            |-> "BUY",
                  signal_date     |-> FormatDate(f.signal_date),
                  execution_date  |-> FormatDate(current_date),
                  signal_price    |-> Round2P(Close(d, i - 1)),
                  execution_price |-> Round2P(execution_price),
                  shares          |-> Round4(shares),
                  commission      |-> Round2(commission),
                  balance_after   |-> Round2(f.balance - commission) ])]

\* cost_basis = shares * buy_price + trades[-1]["commission"]: the commission
\* is read back from the log, where it is rounded to cents
CostBasis(f) ==
    ValueOf(f.shares, f.buy_price) + f.trades[Len(f.trades)].commission

\* a SELL entry and the frame after it: shared shape of the next-bar SELL
\* fill and of the end-of-period close
SellAt(f, current_date, price, sig_date, sig_price) ==
    LET sell_value == ValueOf(f.shares, price)
        commission == Times(sell_value, commission_rate)
        net_proceeds == sell_value - commission
        cost_basis == CostBasis(f)
        profit_loss == net_proceeds - cost_basis
        hold_days == current_date.day - f.buy_date.day
    IN  [f EXCEPT
            !.balance = net_proceeds,
            !.profit_loss = profit_loss,
            !.trades = Append(@,
                [ type            |-> "SELL",
                  signal_date     |-> sig_date,
                  execution_date  |-> FormatDate(current_date),
                  signal_price    |-> Round2P(sig_price),
                  execution_price |-> Round2P(price),
                  shares          |-> Round4(f.shares),
                  commission      |-> Round2(commission),
                  proceeds        |-> Round2(sell_value),
                  net_proceeds    |-> Round2(net_proceeds),
                  profit_loss     |-> Round2(profit_loss),
                  balance_after   |-> Round2(net_proceeds),
                  hold_days       |-> hold_days ])]

\* the SELL fill of one loop pass
FillSellKeepingShares(f, d) ==
    LET i == f.i
        g == SellAt(f, Index(d, i), ExecutionPrice(d, i),
                    FormatDate(f.signal_date), Close(d, i - 1))
    IN  [g EXCEPT !.position_open = FALSE, !.pending_sell = FALSE]

FillSell(f, d) ==
    LET i == f.i
        g == SellAt(f, Index(d, i), ExecutionPrice(d, i),
                    FormatDate(f.signal_date), Close(d, i - 1))
    IN  [g EXCEPT !.shares = 0, !.position_open = FALSE, !.pending_sell = FALSE]

\* the test that records a pending buy at bar f.i
AcceptsBuyWhileLong(f, buy) ==
    buy[f.i + 1] = 1 /\ ~f.pending_buy

AcceptsBuy(f, buy) ==
    buy[f.i + 1] = 1 /\ ~f.position_open /\ ~f.pending_buy

\* the test that records a pending sell at bar f.i
AcceptsSellWhileFlat(f, sell) ==
    sell[f.i + 1] = 1 /\ ~f.pending_sell

AcceptsSell(f, sell) ==
    sell[f.i + 1] = 1 /\ f.position_open /\ ~f.pending_sell

\* one pass of `for i in range(len(df))`
BarStepFillingFirst(f, d, buy, sell) ==
    LET i == f.i
        current_date == Index(d, i)
        filled == IF f.pending_buy /\ i > 0 THEN FillBuy(f, d)
                  ELSE IF f.pending_sell /\ i > 0 THEN FillSell(f, d)
                  ELSE f
        g == IF AcceptsBuy(filled, buy)
                THEN [filled EXCEPT !.pending_buy = TRUE, !.signal_date = current_date]
             ELSE IF AcceptsSell(filled, sell)
                THEN [filled EXCEPT !.pending_sell = TRUE, !.signal_date = current_date]
             ELSE filled
    IN  [g EXCEPT !.i = i + 1,
                  !.pc = IF i + 1 < Len(d) THEN "loop" ELSE "close"]

BarStep(f, d, buy, sell) ==
    LET i == f.i
        current_date == Index(d, i)
        g == IF AcceptsBuy(f, buy)
                THEN [f EXCEPT !.pending_buy = TRUE, !.signal_date = current_date]
             ELSE IF AcceptsSell(f, sell)
                THEN [f EXCEPT !.pending_sell = TRUE, !.signal_date = current_date]
             ELSE IF f.pending_buy /\ i > 0 THEN FillBuy(f, d)
             ELSE IF f.pending_sell /\ i > 0 THEN FillSell(f, d)
             ELSE f
    IN  [g EXCEPT !.i = i + 1,
                  !.pc = IF i + 1 < Len(d) THEN "loop" ELSE "close"]

\* `if position_open:` after the loop
NeedsCloseWhenSelling(f) == f.position_open /\ f.pending_sell

NeedsCloseUnlessSelling(f) == f.position_open /\ ~f.pending_sell

NeedsClose(f) == f.position_open

\* after the loop: close any remaining position at the last close, return
ClosePosition(f, d) ==
    LET last == Len(d) - 1
        g == IF NeedsClose(f)
                THEN SellAt(f, Index(d, last), Close(d, last),
                            EndOfPeriodLabel, Close(d, last))
                ELSE f
    IN  [g EXCEPT !.pc = "returned"]

-----------------------------------------------------------------------------
(* TradingSimulator._calculate_statistics and simulate *)

\* percentages are kept in units of 1/PctScale percent (two decimals)
PctScale == 10 * 10

\* hold-day averages are kept in tenths of a day (one decimal)
DayScale == 10

RECURSIVE Sum(_)
Sum(xs) == IF Len(xs) = 0 THEN 0 ELSE xs[1] + Sum(Tail(xs))

RECURSIVE Max(_)
Max(xs) ==
    IF Len(xs) = 1 THEN xs[1]
    ELSE LET m == Max(Tail(xs)) IN IF xs[1] > m THEN xs[1] ELSE m

RECURSIVE Min(_)
Min(xs) ==
    IF Len(xs) = 1 THEN xs[1]
    ELSE LET m == Min(Tail(xs)) IN IF xs[1] < m THEN xs[1] ELSE m

\* round(a / c) for c > 0, a of either sign
DivRound(a, c) == RoundTo(a, c) \div c

\* [f(t) for t in xs]
Column(xs, field) == [j \in 1..Len(xs) |-> xs[j][field]]

\* pd.to_datetime of a formatted date
ToDatetime(text) == text.ymd

EmptyStatistics ==
    [ success_rate        |-> 0,
      avg_trade_frequency |-> 0,
      total_profit        |-> 0,
      total_loss          |-> 0,
      avg_profit          |-> 0,
      avg_loss            |-> 0,
      max_profit          |-> 0,
      max_loss            |-> 0,
      avg_hold_days       |-> 0 ]

\* [t["profit_loss"] for t in sell_trades if t["profit_loss"] > 0]
ProfitsOrBreakEven(sell_trades) ==
    Column(SelectSeq(sell_trades, LAMBDA t : t.profit_loss >= 0), "profit_loss")

Profits(sell_trades) ==
    Column(SelectSeq(sell_trades, LAMBDA t : t.profit_loss > 0), "profit_loss")

CalculateStatistics(trades, final_balance) ==
    LET sell_trades == SelectSeq(trades, LAMBDA t : t.type = "SELL")
        profits == Profits(sell_trades)
        losses == Column(SelectSeq(sell_trades, LAMBDA t : t.profit_loss < 0),
                         "profit_loss")
        days_between == ToDatetime(trades[Len(trades)].execution_date)
                          - ToDatetime(trades[1].execution_date)
        hold_days == Column(SelectSeq(sell_trades, LAMBDA t : t.hold_days > 0),
                            "hold_days")
    IN  IF Len(trades) = 0 THEN EmptyStatistics
        ELSE IF Len(sell_trades) = 0 THEN EmptyStatistics
        ELSE
        [ success_rate |->
              DivRound(Len(profits) * 100 * PctScale, Len(sell_trades)),
          avg_trade_frequency |->
              IF Len(trades) >= 2
                THEN DivRound(days_between * PctScale, Len(sell_trades))
                ELSE 0,
          total_profit |-> Round2(Sum(profits)),
          total_loss   |-> Round2(Sum(losses)),
          avg_profit   |-> IF Len(profits) > 0
                             THEN Round2(DivRound(Sum(profits), Len(profits)))
                             ELSE 0,
          avg_loss     |-> IF Len(losses) > 0
                             THEN Round2(DivRound(Sum(losses), Len(losses)))
                             ELSE 0,
          max_profit   |-> IF Len(profits) > 0 THEN Round2(Max(profits)) ELSE 0,
          max_loss     |-> IF Len(losses) > 0 THEN Round2(Min(losses)) ELSE 0,
          avg_hold_days |->
              IF Len(hold_days) > 0
                THEN DivRound(Sum(hold_days) * DayScale, Len(hold_days))
                ELSE 0 ]

\* the least number of bars simulate accepts
MinSimBars == 50

\* `if df.empty or len(df) < 50`
InsufficientAtFloor(d) == Len(d) = 0 \/ Len(d) <= MinSimBars

Insufficient(d) == Len(d) = 0 \/ Len(d) < MinSimBars

InsufficientData ==
    [error |-> "Insufficient data for trading simulation (need >= 50 data points)"]

\* the dictionary simulate returns after a run of _execute_trades
SimulationResult(trades, final_balance, buy_indicator, sell_indicator) ==
    LET stats == CalculateStatistics(trades, final_balance)
        pct_unit == initial_balance \div (100 * PctScale)
    IN  [ trading_summary |->
            [ initial_balance   |-> initial_balance,
              final_balance     |-> Round2(final_balance),
              total_return      |-> Round2(final_balance - initial_balance),
              return_percentage |->
                  DivRound(final_balance - initial_balance, pct_unit),
              total_trades      |-> Len(trades),
              success_rate      |-> stats.success_rate,
              avg_days_between_trades |-> stats.avg_trade_frequency,
              buy_indicator     |-> buy_indicator,
              sell_indicator    |-> sell_indicator ],
          trades |-> trades,
          statistics |-> stats ]

NoResult == [none |-> TRUE]

-----------------------------------------------------------------------------
(* MarketScanner: exclude rules, sorting, truncation *)

\* dict.get(key): the value wrapped in a one-element tuple, or << >> for None
Get(rec, key) == IF key \in DOMAIN rec THEN <<rec[key]>> ELSE << >>

\* truth value of an optional number: None and 0 are false
Truthy(o) == o # << >> /\ o[1] # 0

\* Python `a or b`
PyOr(a, b) == IF Truthy(a) THEN a ELSE b

\* summary.get(field) or stats.get(field)
FieldValue(result, field) ==
    PyOr(Get(result.trading_summary, field), Get(result.statistics, field))

EvaluateCondition(field_value, operator, value) ==
    IF operator = "<" THEN field_value < value
    ELSE IF operator = ">" THEN field_value > value
    ELSE IF operator = "<=" THEN field_value <= value
    ELSE IF operator = ">=" THEN field_value >= value
    ELSE IF operator = "==" THEN field_value = value
    ELSE IF operator = "!=" THEN field_value # value
    ELSE FALSE

\* the inner loop over the rules: some rule with a found field value holds
Excluded(result, rules) ==
    \E k \in 1..Len(rules) :
        LET field_value == FieldValue(result, rules[k].field)
        IN  /\ field_value # << >>
            /\ EvaluateCondition(field_value[1], rules[k].operator, rules[k].value)

ApplyExcludeRules(results, rules) ==
    SelectSeq(results, LAMBDA result : ~Excluded(result, rules))

\* the default when no sort rule is given
DefaultSortRulesAscending == << [field |-> "return_percentage", order |-> "asc"] >>

DefaultSortRules == << [field |-> "return_percentage", order |-> "desc"] >>

\* one part of the sort key: negated for descending order
KeyPartNeverNegated(value, order) == value

KeyPart(value, order) == IF order = "desc" THEN 0 - value ELSE value

\* get_sort_key: summary.get(field) or stats.get(field) or 0, per rule
GetSortKey(item, sort_rules) ==
    [k \in 1..Len(sort_rules) |->
        KeyPart(PyOr(FieldValue(item, sort_rules[k].field), <<0>>)[1],
                sort_rules[k].order)]

\* tuple comparison a < b of two keys of equal length
RECURSIVE TupleLess(_, _)
TupleLess(a, b) ==
    IF Len(a) = 0 THEN FALSE
    ELSE IF a[1] < b[1] THEN TRUE
    ELSE IF a[1] > b[1] THEN FALSE
    ELSE TupleLess(Tail(a), Tail(b))

\* x placed into the sorted list xs behind every element that is not
\* greater (sorted() is stable)
RECURSIVE Insert(_, _, _)
Insert(x, xs, rules) ==
    IF Len(xs) = 0 THEN <<x>>
    ELSE IF TupleLess(GetSortKey(x, rules), GetSortKey(xs[1], rules))
        THEN <<x>> \o xs
        ELSE <<xs[1]>> \o Insert(x, Tail(xs), rules)

\* sorted(results, key=get_sort_key)
RECURSIVE Sorted(_, _)
Sorted(xs, rules) ==
    IF Len(xs) = 0 THEN << >>
    ELSE Insert(xs[Len(xs)], Sorted(SubSeq(xs, 1, Len(xs) - 1), rules), rules)

ApplySorting(results, sort_rules) ==
    IF Len(results) = 0 THEN results
    ELSE Sorted(results,
                IF Len(sort_rules) = 0 THEN DefaultSortRules ELSE sort_rules)

\* results[:top_n]
Slice(results, n) == SubSeq(results, 1, IF n < Len(results) THEN n ELSE Len(results))

\* `if top_n and top_n > 0: results = results[:top_n]`
TruncateOneShort(results, top_n) ==
    IF top_n > 0 THEN Slice(results, top_n - 1) ELSE results

Truncate(results, top_n) ==
    IF top_n > 0 THEN Slice(results, top_n) ELSE results

\* the symbols scanned, in the order of the candidate list
Stocks == <<"AAA", "BBB", "CCC", "DDD", "EEE", "FFF">>

\* outcomes of a simulation as (return_percentage, success_rate,
\* total_trades), percentages in units of 1/PctScale percent
Profiles ==
    { <<0 - 500, 0, 2>>,
      <<0, 0, 0>>,
      <<0, 5000, 4>>,
      <<1000, 5000, 4>>,
      <<1500, 5000, 4>>,
      <<999, 10000, 2>> }

\* the per-symbol result _scan_single_stock returns: simulate's dictionary
\* with the symbol added and the trade log removed
ScanResult(stock, profile) ==
    LET pct_unit == initial_balance \div (100 * PctScale)
        gain == profile[1] * pct_unit
        sells == profile[3] \div 2
    IN  [ stock |-> stock,
          trading_summary |->
            [ initial_balance   |-> initial_balance,
              final_balance     |-> initial_balance + gain,
              total_return      |-> gain,
              return_percentage |-> profile[1],
              total_trades      |-> profile[3],
              success_rate      |-> profile[2],
              avg_days_between_trades |-> IF sells > 0 THEN 7 * PctScale ELSE 0,
              buy_indicator     |-> "macd",
              sell_indicator    |-> "macd" ],
          statistics |->
            [ success_rate        |-> profile[2],
              avg_trade_frequency |-> IF sells > 0 THEN 7 * PctScale ELSE 0,
              total_profit        |-> IF gain > 0 THEN gain ELSE 0,
              total_loss          |-> IF gain < 0 THEN gain ELSE 0,
              avg_profit          |-> IF gain > 0 THEN gain ELSE 0,
              avg_loss            |-> IF gain < 0 THEN gain ELSE 0,
              max_profit          |-> IF gain > 0 THEN gain ELSE 0,
              max_loss            |-> IF gain < 0 THEN gain ELSE 0,
              avg_hold_days       |-> IF sells > 0 THEN 3 * DayScale ELSE 0 ] ]

\* exclude rule lists tried; the empty list also stands for None (both skip
\* the filter).  Values are in the unit of the field.
ExcludeRuleLists ==
    { << >>,
      << [field |-> "return_percentage", operator |-> "<", value |-> 10 * PctScale] >>,
      << [field |-> "no_such_field", operator |-> "<", value |-> 10 * PctScale] >>,
      << [field |-> "success_rate", operator |-> ">=", value |-> 100 * PctScale],
         [field |-> "return_percentage", operator |-> "<", value |-> 0] >>,
      << [field |-> "total_trades", operator |-> "==", value |-> 0] >>,
      << [field |-> "total_profit", operator |-> "<=", value |-> 0] >>,
      << [field |-> "return_percentage", operator |-> ">", value |-> 10 * PctScale],
         [field |-> "success_rate", operator |-> "!=", value |-> 50 * PctScale] >> }

\* sort rule lists tried; the empty list also stands for None (both take
\* the default)
SortRuleLists ==
    { << >>,
      << [field |-> "success_rate", order |-> "desc"],
         [field |-> "return_percentage", order |-> "desc"] >>,
      << [field |-> "return_percentage", order |-> "asc"] >>,
      << [field |-> "no_such_field", order |-> "desc"],
         [field |-> "return_percentage", order |-> "desc"] >>,
      << [field |-> "success_rate", order |-> "asc"],
         [field |-> "return_percentage", order |-> "desc"] >>,
      << [field |-> "total_profit", order |-> "desc"] >> }

NoRequest == [none |-> TRUE]

NoScan == [pc |-> "none"]

-----------------------------------------------------------------------------
(* Settings and the MarketScanner instance *)

\* durations are kept in milliseconds
Second == 10 * 100

\* the values Settings() takes when the environment overrides none
DefaultSettings ==
    [ rate_limit_delay |-> Second \div 10,
      max_workers      |-> 20,
      batch_size       |-> 50 ]

\* Settings is a BaseSettings: the environment (or .env) may override the
\* fields; a configuration with batches of one and a single worker
SmallSettings ==
    [ rate_limit_delay |-> Second \div 10,
      max_workers      |-> 1,
      batch_size       |-> 1 ]

\* a configuration whose executor has fewer workers than a batch has symbols
NarrowSettings ==
    [ rate_limit_delay |-> Second \div 10,
      max_workers      |-> 1,
      batch_size       |-> 2 ]

SettingsPool == {DefaultSettings, SmallSettings, NarrowSettings}

\* MarketScanner.__init__
NewMarketScanner(s) ==
    [ max_workers      |-> s.max_workers,
      batch_size       |-> s.batch_size,
      rate_limit_delay |-> s.rate_limit_delay,
      timeout          |-> 30 * Second,
      max_retries      |-> 3,
      retry_delay      |-> 2 * Second ]

\* the candidate counts above which a slower tier is selected
LargeScan == 1000

MediumScan == 500

\* _adjust_rate_limiting(num_stocks): the instance after the call
AdjustRateLimitingAtOrAbove(self, num_stocks, s) ==
    IF num_stocks >= LargeScan
      THEN [self EXCEPT !.rate_limit_delay = Second \div 5,
                        !.max_workers = 10,
                        !.batch_size = 25]
    ELSE IF num_stocks >= MediumScan
      THEN [self EXCEPT !.rate_limit_delay = (3 * Second) \div 20,
                        !.max_workers = 15,
                        !.batch_size = 35]
    ELSE [self EXCEPT !.rate_limit_delay = s.rate_limit_delay,
                      !.max_workers = s.max_workers,
                      !.batch_size = s.batch_size]

AdjustRateLimitingDownOnly(self, num_stocks, s) ==
    IF num_stocks > LargeScan
      THEN [self EXCEPT !.rate_limit_delay = Second \div 5,
                        !.max_workers = 10,
                        !.batch_size = 25]
    ELSE IF num_stocks > MediumScan
      THEN [self EXCEPT !.rate_limit_delay = (3 * Second) \div 20,
                        !.max_workers = 15,
                        !.batch_size = 35]
    ELSE self

AdjustRateLimiting(self, num_stocks, s) ==
    IF num_stocks > LargeScan
      THEN [self EXCEPT !.rate_limit_delay = Second \div 5,
                        !.max_workers = 10,
                        !.batch_size = 25]
    ELSE IF num_stocks > MediumScan
      THEN [self EXCEPT !.rate_limit_delay = (3 * Second) \div 20,
                        !.max_workers = 15,
                        !.batch_size = 35]
    ELSE [self EXCEPT !.rate_limit_delay = s.rate_limit_delay,
                      !.max_workers = s.max_workers,
                      !.batch_size = s.batch_size]

NoDetector == [pc |-> "none"]

-----------------------------------------------------------------------------
(* The trade loop as a state machine *)

\* the signal accepted by the step from frame f to frame g, if any
Accepted(f, g) ==
    IF g.pending_buy /\ ~f.pending_buy THEN << [kind |-> "BUY", bar |-> f.i] >>
    ELSE IF g.pending_sell /\ ~f.pending_sell THEN << [kind |-> "SELL", bar |-> f.i] >>
    ELSE << >>

Init ==
    /\ \E n \in 1..MaxBars, k \in 0..(NumSeries - 1) :
         /\ df = MkSeries(n, k)
         /\ buy_signals \in [1..n -> {0, 1}]
         /\ sell_signals \in [1..n -> {0, 1}]
    /\ et = InitFrame
    /\ accepted = << >>
    /\ sim = [pc |-> "none", buy_indicator |-> "macd", sell_indicator |-> "macd",
              result |-> NoResult]
    /\ request = NoRequest
    /\ scan = NoScan
    /\ settings = DefaultSettings
    /\ scanner = NewMarketScanner(settings)
    /\ detector = NoDetector

ExecBar ==
    /\ et.pc = "loop"
    /\ et' = BarStep(et, df, buy_signals, sell_signals)
    /\ accepted' = accepted \o Accepted(et, et')
    /\ UNCHANGED <<df, buy_signals, sell_signals, sim, scanVars, otherVars>>

EndOfPeriod ==
    /\ et.pc = "close"
    /\ et' = ClosePosition(et, df)
    /\ UNCHANGED <<df, buy_signals, sell_signals, accepted, sim, scanVars, otherVars>>

Next ==
    \/ ExecBar
    \/ EndOfPeriod

Spec == Init /\ [][Next]_vars

-----------------------------------------------------------------------------
(* simulate as a state machine: the gate, the trade loop, the result *)

\* the lengths of the series simulate is called on
SimLens == {0} \cup ((MinSimBars - SimSlack)..(MinSimBars + SimSlack))

\* bars that may carry the single flag of a sparse signal list
SigBars(n) == {1, 2, n - 1, n} \cap (1..n)

\* signal lists generate_signals may hand over for n bars: no flag, a flag
\* on every bar, or a single flag
SignalFamily(n) ==
    {[j \in 1..n |-> 0], [j \in 1..n |-> 1]}
        \cup {[j \in 1..n |-> IF j = b THEN 1 ELSE 0] : b \in SigBars(n)}

Indicators == {"macd", "kdj"}

InitSim ==
    /\ \E n \in SimLens, k \in 0..(NumSeries - 1) :
         /\ df = MkSeries(n, k)
         /\ buy_signals \in SignalFamily(n)
         /\ sell_signals \in SignalFamily(n)
    /\ et = [InitFrame EXCEPT !.pc = "idle"]
    /\ accepted = << >>
    /\ \E bi \in Indicators, si \in Indicators :
         sim = [pc |-> "entry", buy_indicator |-> bi, sell_indicator |-> si,
                result |-> NoResult]
    /\ request = NoRequest
    /\ scan = NoScan
    /\ settings = DefaultSettings
    /\ scanner = NewMarketScanner(settings)
    /\ detector = NoDetector

\* the gate of simulate: too few bars return the error at once
SimReject ==
    /\ sim.pc = "entry"
    /\ Insufficient(df)
    /\ sim' = [sim EXCEPT !.pc = "done", !.result = InsufficientData]
    /\ UNCHANGED <<df, buy_signals, sell_signals, et, accepted, scanVars, otherVars>>

\* past the gate: the signals are generated and _execute_trades is entered
SimStart ==
    /\ sim.pc = "entry"
    /\ ~Insufficient(df)
    /\ sim' = [sim EXCEPT !.pc = "trading"]
    /\ et' = InitFrame
    /\ UNCHANGED <<df, buy_signals, sell_signals, accepted, scanVars, otherVars>>

\* _execute_trades has returned: statistics and the result dictionary
SimReturn ==
    /\ sim.pc = "trading"
    /\ et.pc = "returned"
    /\ sim' = [sim EXCEPT
                 !.pc = "done",
                 !.result = SimulationResult(et.trades, et.balance,
                                             sim.buy_indicator, sim.sell_indicator)]
    /\ UNCHANGED <<df, buy_signals, sell_signals, et, accepted, scanVars, otherVars>>

NextSim ==
    \/ SimReject
    \/ SimStart
    \/ ExecBar
    \/ EndOfPeriod
    \/ SimReturn

SpecSim == InitSim /\ [][NextSim]_vars

-----------------------------------------------------------------------------
(* Properties of the trade log *)

\* number of entries of the given type among the first k entries of log
Count(log, ty, k) == Cardinality({j \in 1..k : log[j].type = ty})

\* the entries written by the bar loop (all but the end-of-period close)
LoopTrades(log) == SelectSeq(log, LAMBDA t : t.signal_date # EndOfPeriodLabel)

HasEndOfPeriodClose(log) ==
    \E j \in 1..Len(log) : log[j].signal_date = EndOfPeriodLabel

\* C1: in every prefix of the trade log, (number of BUY) - (number of SELL)
\* is 0 or 1: at most one position is open at any time.
C1_AtMostOnePosition ==
    \A k \in 0..Len(et.trades) :
        Count(et.trades, "BUY", k) - Count(et.trades, "SELL", k) \in {0, 1}

\* a returned log with two complete round trips
C1_Witness ==
    /\ et.pc = "returned"
    /\ Len(et.trades) = 4
    /\ Count(et.trades, "BUY", 4) = 2

\* C2: the k-th entry written by the bar loop is the fill of the k-th
\* accepted signal, executed on the bar right after the signal bar at that
\* bar's open; an order that is still pending was accepted on the bar just
\* processed, so none waits longer than one bar.
C2_NextBarOpenFill ==
    LET log == LoopTrades(et.trades)
    IN  /\ Len(accepted) - Len(log) \in {0, 1}
        /\ Len(accepted) = Len(log) + 1 =>
              accepted[Len(accepted)].bar = et.i - 1
        /\ \A k \in 1..Len(log) :
              LET a == accepted[k]
                  t == log[k]
              IN  /\ t.type = a.kind
                  /\ a.bar + 1 < Len(df)
                  /\ t.signal_date = FormatDate(Index(df, a.bar))
                  /\ t.execution_date = FormatDate(Index(df, a.bar + 1))
                  /\ t.execution_price = Round2P(Open(df, a.bar + 1))
        /\ et.position_open /\ Len(log) > 0 /\ log[Len(log)].type = "BUY" =>
              et.buy_price = Open(df, accepted[Len(log)].bar + 1)

\* a BUY and a SELL both filled by the loop, the SELL signalled on bar 2
C2_Witness ==
    /\ Len(LoopTrades(et.trades)) >= 2
    /\ accepted[2] = [kind |-> "SELL", bar |-> 2]
    /\ et.trades[2].execution_date = FormatDate(Index(df, 3))

\* C3: on return, the log ends with an end-of-period SELL at the last bar's
\* close exactly when the loop left a position open (more BUY than SELL
\* fills, a sell still pending included); a buy still pending leaves no
\* entry.
C3_EndOfPeriodClose ==
    et.pc = "returned" =>
        LET log == et.trades
            loop == LoopTrades(log)
            n == Len(df)
            open == Count(loop, "BUY", Len(loop)) > Count(loop, "SELL", Len(loop))
        IN  /\ HasEndOfPeriodClose(log) <=> open
            /\ Len(log) - Len(loop) \in {0, 1}
            /\ open =>
                  LET t == log[Len(log)]
                  IN  /\ t.type = "SELL"
                      /\ t.signal_date = EndOfPeriodLabel
                      /\ t.execution_date = FormatDate(Index(df, n - 1))
                      /\ t.execution_price = Round2P(Close(df, n - 1))
                      /\ t.execution_price # Round2P(Open(df, n - 1))
            /\ et.pending_buy =>
                  /\ ~HasEndOfPeriodClose(log)
                  /\ Len(loop) = Len(accepted) - 1
                  /\ accepted[Len(accepted)].kind = "BUY"

\* returned with a sell accepted on the last bar and closed at the period end
C3_Witness ==
    /\ et.pc = "returned"
    /\ et.pending_sell
    /\ accepted[Len(accepted)] = [kind |-> "SELL", bar |-> Len(df) - 1]
    /\ HasEndOfPeriodClose(et.trades)

\* returned with a buy accepted on the last bar and no entry for it
C3_WitnessPendingBuy ==
    /\ et.pc = "returned"
    /\ et.pending_buy
    /\ Len(et.trades) = 2

\* C4: a loop pass creates a pending buy exactly when the bar has a buy flag,
\* no position is open and no buy is pending, and a pending sell exactly
\* when the bar has a sell flag, a position is open and no sell is pending;
\* a pass that creates an order writes no trade.
C4_SignalAcceptance ==
    [][ et.pc = "loop" =>
          LET i == et.i
              buy == buy_signals[i + 1] = 1
              sell == sell_signals[i + 1] = 1
              newBuy == et'.pending_buy /\ ~et.pending_buy
              newSell == et'.pending_sell /\ ~et.pending_sell
          IN  /\ newBuy <=> (buy /\ ~et.position_open /\ ~et.pending_buy)
              /\ newSell <=> (sell /\ et.position_open /\ ~et.pending_sell)
              /\ (newBuy \/ newSell) => et'.trades = et.trades
              /\ ~(newBuy /\ newSell)
      ]_vars

\* a bar carrying both flags while long: the sell was taken
C4_Witness ==
    /\ et.i >= 1
    /\ et.pc \in {"loop", "close"}
    /\ buy_signals[et.i] = 1
    /\ sell_signals[et.i] = 1
    /\ et.position_open
    /\ et.pending_sell
    /\ accepted[Len(accepted)] = [kind |-> "SELL", bar |-> et.i - 1]

-----------------------------------------------------------------------------
(* scan from the return of _scan_stocks on: filter, sort, truncate *)

\* _scan_stocks has returned m results (in an order the batch produced) and
\* the counters; the request's rules are read when the stage that uses them
\* runs
InitScan ==
    /\ df = << >>
    /\ buy_signals = << >>
    /\ sell_signals = << >>
    /\ et = [InitFrame EXCEPT !.pc = "idle"]
    /\ accepted = << >>
    /\ sim = [pc |-> "none", buy_indicator |-> "macd", sell_indicator |-> "macd",
              result |-> NoResult]
    /\ settings = DefaultSettings
    /\ scanner = NewMarketScanner(settings)
    /\ detector = NoDetector
    /\ \E m \in 0..MaxResults, er \in ExcludeRuleLists :
         \E ps \in [1..m -> Profiles] :
            /\ request = [ exclude_rules |-> er,
                           sort_rules    |-> << >>,
                           top_n         |-> 0,
                           scanned       |-> [j \in 1..m |-> ScanResult(Stocks[j], ps[j])],
                           total         |-> MaxResults ]
            /\ scan = [ pc         |-> "scanned",
                        results    |-> request.scanned,
                        successful |-> m,
                        failed     |-> MaxResults - m,
                        filtered   |-> << >>,
                        out        |-> NoResult ]

\* `if exclude_rules: results = self._apply_exclude_rules(...)`
ScanFilter ==
    /\ scan.pc = "scanned"
    /\ scan' = [scan EXCEPT
                  !.pc = "filtered",
                  !.results = IF Len(request.exclude_rules) > 0
                                THEN ApplyExcludeRules(@, request.exclude_rules)
                                ELSE @,
                  !.filtered = IF Len(request.exclude_rules) > 0
                                THEN ApplyExcludeRules(scan.results, request.exclude_rules)
                                ELSE scan.results]
    /\ UNCHANGED <<tradeVars, sim, request, otherVars>>

\* `results = self._apply_sorting(results, sort_rules)`
ScanSort ==
    /\ scan.pc = "filtered"
    /\ \E sr \in SortRuleLists :
         /\ request' = [request EXCEPT !.sort_rules = sr]
         /\ scan' = [scan EXCEPT !.pc = "sorted",
                                 !.results = ApplySorting(@, sr)]
    /\ UNCHANGED <<tradeVars, sim, otherVars>>

\* truncation to top_n, the symbol list and the returned dictionary
ScanReturn ==
    /\ scan.pc = "sorted"
    /\ \E n \in 0..MaxTopN :
         LET results == Truncate(scan.results, n)
         IN  /\ request' = [request EXCEPT !.top_n = n]
             /\ scan' = [scan EXCEPT
                           !.pc = "done",
                           !.results = results,
                           !.out =
                             [ scan_summary |->
                                 [ total_stocks_scanned |-> request.total,
                                   successful_scans     |-> scan.successful,
                                   failed_scans         |-> scan.failed,
                                   stocks_after_filters |-> Len(results) ],
                               top_stocks  |-> [j \in 1..Len(results) |-> results[j].stock],
                               top_results |-> results ]]
    /\ UNCHANGED <<tradeVars, sim, otherVars>>

NextScan ==
    \/ ScanFilter
    \/ ScanSort
    \/ ScanReturn

SpecScan == InitScan /\ [][NextScan]_vars

-----------------------------------------------------------------------------
(* Properties of simulate *)

\* C5: simulate returns only the insufficient-data error for a series of
\* fewer than 50 bars, and a result with summary, trade log and statistics
\* (and no error) for a series of 50 bars or more.
C5_FiftyBarFloor ==
    sim.pc = "done" =>
        IF Len(df) < 50
          THEN /\ DOMAIN sim.result = {"error"}
               /\ et.pc = "idle"
          ELSE /\ DOMAIN sim.result = {"trading_summary", "trades", "statistics"}
               /\ sim.result.trades = et.trades
               /\ et.pc = "returned"
               /\ sim.result.trading_summary.total_trades = Len(et.trades)
               /\ DOMAIN sim.result.statistics = DOMAIN EmptyStatistics

\* a series of exactly 50 bars simulated to a result with trades
C5_Witness ==
    /\ sim.pc = "done"
    /\ Len(df) = 50
    /\ "trades" \in DOMAIN sim.result
    /\ Len(sim.result.trades) >= 2

\* a series of 49 bars rejected
C5_WitnessRejected ==
    /\ sim.pc = "done"
    /\ Len(df) = 49
    /\ "error" \in DOMAIN sim.result

-----------------------------------------------------------------------------
(* Properties of the filter, the sort and the truncation *)

\* the value a rule is meant to read: the summary's if the summary has the
\* field, else the statistics', else nothing
Has(result, field) ==
    field \in DOMAIN result.trading_summary \/ field \in DOMAIN result.statistics

ValueOfField(result, field) ==
    IF field \in DOMAIN result.trading_summary THEN result.trading_summary[field]
    ELSE IF field \in DOMAIN result.statistics THEN result.statistics[field]
    ELSE 0

Compare(x, operator, y) ==
    CASE operator = "<"  -> x < y
      [] operator = ">"  -> x > y
      [] operator = "<=" -> x <= y
      [] operator = ">=" -> x >= y
      [] operator = "==" -> x = y
      [] operator = "!=" -> x # y

RuleHolds(result, rule) ==
    /\ Has(result, rule.field)
    /\ Compare(ValueOfField(result, rule.field), rule.operator, rule.value)

StocksOf(results) == [j \in 1..Len(results) |-> results[j].stock]

TenPercentRule ==
    << [field |-> "return_percentage", operator |-> "<", value |-> 10 * PctScale] >>

\* C6: with the single rule (return_percentage < 10) the filter removes
\* every result whose return_percentage is below 10, zero and negative
\* values included, and keeps every other result.
C6_ExcludeBelowTen ==
    scan.pc = "filtered" /\ request.exclude_rules = TenPercentRule =>
        scan.results =
            SelectSeq(request.scanned,
                      LAMBDA r : ~(r.trading_summary.return_percentage < 10 * PctScale))

\* C7: a result is dropped exactly when some rule's comparison holds for
\* the value of the rule's field (summary first, statistics otherwise); a
\* rule on a field of neither record drops nothing; survivors keep their
\* order.
C7_ExcludeIffSomeRuleHolds ==
    scan.pc = "filtered" =>
        scan.results =
            SelectSeq(request.scanned,
                      LAMBDA r : ~(\E k \in 1..Len(request.exclude_rules) :
                                      RuleHolds(r, request.exclude_rules[k])))

\* a is ordered before or level with b under the rules: the first rule on
\* which they differ has a on the side its order asks for
RECURSIVE LexLeq(_, _, _)
LexLeq(a, b, rules) ==
    IF Len(rules) = 0 THEN TRUE
    ELSE LET va == ValueOfField(a, rules[1].field)
             vb == ValueOfField(b, rules[1].field)
         IN  IF va = vb THEN LexLeq(a, b, Tail(rules))
             ELSE IF rules[1].order = "desc" THEN va > vb ELSE va < vb

IsPermutation(xs, ys) ==
    /\ Len(xs) = Len(ys)
    /\ \A j \in 1..Len(xs) : \E k \in 1..Len(ys) : ys[k] = xs[j]
    /\ \A j \in 1..Len(ys) : \E k \in 1..Len(xs) : xs[k] = ys[j]

ByRateThenReturn ==
    << [field |-> "success_rate", order |-> "desc"],
       [field |-> "return_percentage", order |-> "desc"] >>

\* C8: with sort rules given, the sorted list is a permutation of the list
\* handed in, and any two of its elements stand in the lexicographic order
\* of the rules (rule k deciding only between elements level on rules
\* 1..k-1); with (success_rate desc, return_percentage desc), success_rate
\* never increases and among equal success_rate return_percentage never
\* increases.
C8_LexicographicSort ==
    scan.pc = "sorted" /\ Len(request.sort_rules) > 0 =>
        /\ IsPermutation(scan.results, scan.filtered)
        /\ \A j \in 1..Len(scan.results) : \A k \in (j + 1)..Len(scan.results) :
              LexLeq(scan.results[j], scan.results[k], request.sort_rules)
        /\ request.sort_rules = ByRateThenReturn =>
              \A j \in 1..Len(scan.results) : \A k \in (j + 1)..Len(scan.results) :
                  LET a == scan.results[j].trading_summary
                      b == scan.results[k].trading_summary
                  IN  /\ a.success_rate >= b.success_rate
                      /\ a.success_rate = b.success_rate =>
                            a.return_percentage >= b.return_percentage

\* sorted by (success_rate desc, return_percentage desc) where the input had
\* a tie on success_rate in the wrong return order behind a lower rate
C8_Witness ==
    /\ scan.pc = "sorted"
    /\ request.sort_rules = ByRateThenReturn
    /\ Len(scan.results) = 3
    /\ scan.results # scan.filtered
    /\ scan.results[1].trading_summary.success_rate
          = scan.results[2].trading_summary.success_rate
    /\ scan.results[1].trading_summary.return_percentage
          > scan.results[2].trading_summary.return_percentage
    /\ scan.filtered[1] = scan.results[3]

\* the result with the field added to its summary with value 0
WithZeroField(result, field) ==
    [result EXCEPT !.trading_summary = (field :> 0) @@ @]

MissingFields(rules, results) ==
    {rules[k].field : k \in {q \in 1..Len(rules) :
        \A j \in 1..Len(results) : ~Has(results[j], rules[q].field)}}

RECURSIVE WithZeroFields(_, _)
WithZeroFields(result, fields) ==
    IF fields = {} THEN result
    ELSE LET f == CHOOSE x \in fields : TRUE
         IN  WithZeroFields(WithZeroField(result, f), fields \ {f})

C9_WitnessMissingField ==
    /\ scan.pc = "sorted"
    /\ Len(request.sort_rules) = 2
    /\ request.sort_rules[1].field = "no_such_field"
    /\ Len(scan.results) >= 2
    /\ scan.results # scan.filtered

\* the first n elements of xs, all of xs if it has fewer
Prefix(xs, n) == [j \in 1..(IF n < Len(xs) THEN n ELSE Len(xs)) |-> xs[j]]

\* the list scan truncates: the accepted results filtered, then sorted
FilteredThenSorted ==
    ApplySorting(IF Len(request.exclude_rules) > 0
                   THEN ApplyExcludeRules(request.scanned, request.exclude_rules)
                   ELSE request.scanned,
                 request.sort_rules)

\* C10: for top_n >= 1, top_results is the first min(top_n, length)
\* elements of the accepted results after the exclude rules and then the
\* sort rules were applied, and top_stocks lists their symbols in the same
\* order.
C10_TopNAfterFilterAndSort ==
    scan.pc = "done" /\ request.top_n >= 1 =>
        LET full == FilteredThenSorted
            top == scan.out.top_results
        IN  /\ top = Prefix(full, request.top_n)
            /\ Len(top) = IF request.top_n < Len(full) THEN request.top_n ELSE Len(full)
            /\ Len(scan.out.top_stocks) = Len(top)
            /\ \A j \in 1..Len(top) : scan.out.top_stocks[j] = top[j].stock

\* a scan where the filter dropped a result, the sort reordered the rest
\* and top_n cut the list
C10_Witness ==
    /\ scan.pc = "done"
    /\ request.top_n = 1
    /\ Len(request.scanned) = 3
    /\ Len(scan.filtered) = 2
    /\ scan.out.top_results = << request.scanned[3] >>
    /\ scan.out.top_stocks = << "CCC" >>

-----------------------------------------------------------------------------
(* _adjust_rate_limiting on one instance over successive scans *)

\* largest candidate count tried
MaxCandidates == 1300

\* candidate counts of the scans that follow the first on the same instance
TierProbes == {50, 500, 501, 700, 1000, 1001, 1200}

\* a scanner as constructed, about to adjust for a scan of num_stocks
\* candidates
InitTiers ==
    /\ df = << >>
    /\ buy_signals = << >>
    /\ sell_signals = << >>
    /\ et = [InitFrame EXCEPT !.pc = "idle"]
    /\ accepted = << >>
    /\ sim = [pc |-> "none", buy_indicator |-> "macd", sell_indicator |-> "macd",
              result |-> NoResult]
    /\ request = NoRequest
    /\ settings \in SettingsPool
    /\ scanner = NewMarketScanner(settings)
    /\ detector = NoDetector
    /\ \E n \in 1..MaxCandidates : scan = [pc |-> "resolved", num_stocks |-> n]

\* self._adjust_rate_limiting(len(stocks_to_scan))
AdjustTier ==
    /\ scan.pc = "resolved"
    /\ scanner' = AdjustRateLimiting(scanner, scan.num_stocks, settings)
    /\ scan' = [scan EXCEPT !.pc = "adjusted"]
    /\ UNCHANGED <<tradeVars, sim, request, settings, detector>>

\* the scan is over; the module-level instance serves the next request
NextRequest ==
    /\ scan.pc = "adjusted"
    /\ \E n \in TierProbes : scan' = [pc |-> "resolved", num_stocks |-> n]
    /\ UNCHANGED <<tradeVars, sim, request, settings, scanner, detector>>

NextTiers ==
    \/ AdjustTier
    \/ NextRequest

SpecTiers == InitTiers /\ [][NextTiers]_vars

\* the (delay in ms, workers, batch size) the instance holds
Selected == <<scanner.rate_limit_delay, scanner.max_workers, scanner.batch_size>>

\* C11: after _adjust_rate_limiting the instance holds (0.2 s, 10, 25)
\* exactly when the candidate count is above 1000, (0.15 s, 15, 35) exactly
\* when it is above 500 and at most 1000, and the configured values, which
\* are (0.1 s, 20, 50) by default, exactly when it is at most 500; 1200, 700
\* and 50 candidates fall in the three tiers in that order.
C11_ThreeTiers ==
    scan.pc = "adjusted" =>
        LET n == scan.num_stocks
            configured == <<settings.rate_limit_delay, settings.max_workers,
                            settings.batch_size>>
        IN  /\ Selected = <<200, 10, 25>> <=> n > 1000
            /\ Selected = <<150, 15, 35>> <=> (500 < n /\ n <= 1000)
            /\ Selected = configured <=> n <= 500
            /\ (settings = DefaultSettings /\ n <= 500) => Selected = <<100, 20, 50>>
            /\ n = 1200 => Selected = <<200, 10, 25>>
            /\ n = 700 => Selected = <<150, 15, 35>>
            /\ (n = 50 /\ settings = DefaultSettings) => Selected = <<100, 20, 50>>

\* a scan of exactly 1000 candidates adjusted to the middle tier
C11_Witness ==
    /\ scan.pc = "adjusted"
    /\ scan.num_stocks = 1000
    /\ Selected = <<150, 15, 35>>

-----------------------------------------------------------------------------
(* Text: a string is the sequence of its characters *)

UpperCase ==
    << "A", "B", "C", "D", "E", "F", "G", "H", "I", "J", "K", "L", "M",
       "N", "O", "P", "Q", "R", "S", "T", "U", "V", "W", "X", "Y", "Z" >>

LowerCase ==
    << "a", "b", "c", "d", "e", "f", "g", "h", "i", "j", "k", "l", "m",
       "n", "o", "p", "q", "r", "s", "t", "u", "v", "w", "x", "y", "z" >>

\* the character at the place of c in the other alphabet, c itself if c is
\* not in the first
Recase(c, from, to) ==
    IF \E k \in 1..Len(from) : from[k] = c
      THEN to[CHOOSE k \in 1..Len(from) : from[k] = c]
      ELSE c

\* str.lower()
Lower(text) == [j \in 1..Len(text) |-> Recase(text[j], UpperCase, LowerCase)]

\* str.upper()
Upper(text) == [j \in 1..Len(text) |-> Recase(text[j], LowerCase, UpperCase)]

\* `phrase in text`
Contains(text, phrase) ==
    \E k \in 0..(Len(text) - Len(phrase)) :
        SubSeq(text, k + 1, k + Len(phrase)) = phrase

\* 'macd' and 'kdj'
MacdName == << "m", "a", "c", "d" >>

KdjName == << "k", "d", "j" >>

valid_indicators == << MacdName, KdjName >>

\* `name.lower() not in valid_indicators`, negated
ValidIndicatorAsWritten(name) ==
    \E k \in 1..Len(valid_indicators) : valid_indicators[k] = name

ValidIndicator(name) ==
    \E k \in 1..Len(valid_indicators) : valid_indicators[k] = Lower(name)

\* the phrases that mark an upstream throttle
RateLimitPhrase == << "r", "a", "t", "e", " ", "l", "i", "m", "i", "t" >>

TooManyRequestsPhrase ==
    << "t", "o", "o", " ", "m", "a", "n", "y", " ",
       "r", "e", "q", "u", "e", "s", "t", "s" >>

\* `"rate limit" in error_msg or "too many requests" in error_msg`
IsRateLimitedOrAnyError(error_msg) == TRUE

IsRateLimited(error_msg) ==
    Contains(error_msg, RateLimitPhrase) \/ Contains(error_msg, TooManyRequestsPhrase)

-----------------------------------------------------------------------------
(* StockFetcher: the candidate symbols of a scan *)

\* most symbols in a caller's stock_list
MaxStocks == 3

\* symbols as callers write them, some in lower case
SymbolPool ==
    << << "A", "A", "A" >>, << "b", "b", "b" >>,
       << "C", "c", "C" >>, << "D", "D", "D" >> >>

CategoryNames == << "mega_cap", "large_cap", "mid_cap", "small_cap", "micro_cap" >>

\* the stocks database: no database (every lookup returns []), or one
\* mega-cap and one large-cap symbol
EmptyDatabase == [c \in {CategoryNames[k] : k \in 1..Len(CategoryNames)} |-> << >>]

ListedDatabase ==
    [EmptyDatabase EXCEPT !["mega_cap"] = << SymbolPool[1] >>,
                          !["large_cap"] = << SymbolPool[2] >>]

Databases == {EmptyDatabase, ListedDatabase}

\* get_stocks_by_category
StocksByCategory(db, category) ==
    IF category \in DOMAIN db THEN db[category] ELSE << >>

\* get_large_cap_stocks: mega + large
LargeCapStocks(db) ==
    StocksByCategory(db, "mega_cap") \o StocksByCategory(db, "large_cap")

\* get_all_stocks: the five categories in order
RECURSIVE AllStocksFrom(_, _)
AllStocksFrom(db, k) ==
    IF k > Len(CategoryNames) THEN << >>
    ELSE StocksByCategory(db, CategoryNames[k]) \o AllStocksFrom(db, k + 1)

\* all_symbols extended by the symbols not seen before
RECURSIVE ExtendUnique(_, _)
ExtendUnique(all_symbols, symbols) ==
    IF Len(symbols) = 0 THEN all_symbols
    ELSE ExtendUnique(
            IF \E k \in 1..Len(all_symbols) : all_symbols[k] = symbols[1]
              THEN all_symbols
              ELSE Append(all_symbols, symbols[1]),
            Tail(symbols))

\* get_stocks_by_categories
RECURSIVE StocksByCategories(_, _, _)
StocksByCategories(db, categories, all_symbols) ==
    IF Len(categories) = 0 THEN all_symbols
    ELSE LET category == categories[1]
             symbols == IF category = "all" THEN AllStocksFrom(db, 1)
                        ELSE IF category = "large_cap" THEN LargeCapStocks(db)
                        ELSE StocksByCategory(db, category)
         IN  StocksByCategories(db, Tail(categories),
                                ExtendUnique(all_symbols, symbols))

\* _get_stocks_to_scan; an empty list also stands for None (both are false)
GetStocksToScan(stock_list, market_cap, db) ==
    IF Len(stock_list) > 0 THEN stock_list
    ELSE IF Len(market_cap) > 0 THEN StocksByCategories(db, market_cap, << >>)
    ELSE LargeCapStocks(db)

\* the stock_list, market_cap arguments and the database of a call
StockLists == {SubSeq(SymbolPool, 1, k) : k \in 0..MaxStocks}

MarketCaps == { << >>, << "mega_cap" >>, << "all", "large_cap" >> }

\* indicator names callers pass, in (buy, sell) pairs
IndicatorPairs ==
    { << MacdName, << "K", "D", "J" >> >>,
      << << "M", "a", "c", "d" >>, MacdName >>,
      << << "r", "s", "i" >>, MacdName >>,
      << KdjName, << "M", "A", "C", "D", " " >> >>,
      << << >>, << "r", "s", "i" >> >> }

\* min_trades values tried
MinTradesPool == {2, 3}

-----------------------------------------------------------------------------
(* MarketScanner._scan_single_stock: one task of the thread pool *)

\* descriptions of the exceptions a fetch raises
TooManyRequestsText ==
    << "4", "2", "9", " ", "T", "o", "o", " ", "M", "a", "n", "y", " ",
       "R", "e", "q", "u", "e", "s", "t", "s" >>

RateLimitedText ==
    << "R", "a", "t", "e", " ", "l", "i", "m", "i", "t", "e", "d" >>

TimedOutText ==
    << "R", "e", "a", "d", " ", "t", "i", "m", "e", "d", " ", "o", "u", "t" >>

ExceptionTexts == {TooManyRequestsText, RateLimitedText, TimedOutText}

\* the least number of bars _scan_single_stock hands to simulate
MinScanBars == 50

\* outcomes of simulate the accepted results are drawn from
TaskProfiles == {pr \in Profiles : pr[1] > 0 /\ pr[1] <= 10 * PctScale}

\* what one attempt meets: an exception out of the fetch, a series of some
\* length (with the outcome its simulation has), or a fetch that never
\* returns
FetchOutcomes ==
    {[kind |-> "raise", text |-> x] : x \in ExceptionTexts}
      \cup {[kind |-> "data", bars |-> n, profile |-> << >>] :
                n \in {0, MinScanBars - 1}}
      \cup {[kind |-> "data", bars |-> MinScanBars, profile |-> pr] :
                pr \in TaskProfiles}
      \cup {[kind |-> "hang"]}

NoText == << >>

\* a task as submitted to the executor
NewTask(symbol) ==
    [ symbol    |-> symbol,
      state     |-> "queued",
      attempt   |-> 0,
      error_msg |-> NoText,
      events    |-> << >>,
      result    |-> NoResult ]

Sleep(ms) == [op |-> "sleep", ms |-> ms]

Fetch == [op |-> "fetch"]

InsufficientDataFor(symbol) == [error |-> << "Insufficient data for", symbol >>]

ErrorScanning(symbol, text) == [error |-> << "Error scanning", symbol, text >>]

\* the task after it returned result
Finished(t, events, result) ==
    [t EXCEPT !.state = "done", !.attempt = @ + 1, !.error_msg = NoText,
              !.events = events, !.result = result]

\* `if df.empty or len(df) < 50`
TooFewBars(d) == Len(d) = 0 \/ Len(d) < MinScanBars

\* simulate called by the task, its result with the symbol added and the
\* trade log removed
Simulated(symbol, d, profile, buy_indicator, sell_indicator) ==
    IF Insufficient(d) THEN InsufficientData
    ELSE [ScanResult(Upper(symbol), profile) EXCEPT
              !.trading_summary.buy_indicator = buy_indicator,
              !.trading_summary.sell_indicator = sell_indicator]

\* `if attempt < self.max_retries - 1`
MayRetry(attempt, self) == attempt < self.max_retries - 1

\* one pass of `for attempt in range(self.max_retries)` that meets outcome o
Attempt(t, o, self, buy_indicator, sell_indicator) ==
    LET events == t.events \o << Sleep(self.rate_limit_delay), Fetch >>
    IN  IF o.kind = "hang"
          THEN [t EXCEPT !.state = "hung", !.events = events]
        ELSE IF o.kind = "raise"
          THEN LET error_msg == Lower(o.text)
               IN  IF IsRateLimited(error_msg) /\ MayRetry(t.attempt, self)
                     THEN [t EXCEPT !.state = "running",
                                    !.attempt = @ + 1,
                                    !.error_msg = error_msg,
                                    !.events = Append(events, Sleep(self.retry_delay))]
                     ELSE Finished(t, events, ErrorScanning(t.symbol, o.text))
        ELSE LET d == MkSeries(o.bars, 0)
             IN  IF TooFewBars(d)
                   THEN Finished(t, events, InsufficientDataFor(t.symbol))
                   ELSE Finished(t, events,
                                 Simulated(t.symbol, d, o.profile,
                                           buy_indicator, sell_indicator))

-----------------------------------------------------------------------------
(* MarketScanner._scan_batch and _scan_stocks *)

\* the locals of _scan_batch
EmptyBatch == [results |-> << >>, successful |-> 0, failed |-> 0]

\* `result["trading_summary"]["total_trades"] >= min_trades`
MeetsMinTradesStrictly(result, min_trades) ==
    result.trading_summary.total_trades > min_trades

MeetsMinTrades(result, min_trades) ==
    result.trading_summary.total_trades >= min_trades

\* the body of `for future in as_completed(futures)` for a returned result
CollectResultDroppingErrors(batch, result, min_trades) ==
    IF result # NoResult /\ "error" \notin DOMAIN result
      THEN IF MeetsMinTrades(result, min_trades)
             THEN [batch EXCEPT !.results = Append(@, result),
                                !.successful = @ + 1]
             ELSE [batch EXCEPT !.failed = @ + 1]
      ELSE batch

CollectResult(batch, result, min_trades) ==
    IF result # NoResult /\ "error" \notin DOMAIN result
      THEN IF MeetsMinTrades(result, min_trades)
             THEN [batch EXCEPT !.results = Append(@, result),
                                !.successful = @ + 1]
             ELSE [batch EXCEPT !.failed = @ + 1]
      ELSE [batch EXCEPT !.failed = @ + 1]

\* stocks[a:b]
SliceFromToExclusive(xs, a, b) ==
    SubSeq(xs, a + 1, IF b - 1 < Len(xs) THEN b - 1 ELSE Len(xs))

SliceFromTo(xs, a, b) ==
    SubSeq(xs, a + 1, IF b < Len(xs) THEN b ELSE Len(xs))

\* `if len(stocks) > self.batch_size`
Batched(stocks, self) == Len(stocks) > self.batch_size

\* tasks that occupy a worker thread
Busy(tasks) ==
    Cardinality({j \in 1..Len(tasks) : tasks[j].state \in {"running", "hung"}})

\* ThreadPoolExecutor(max_workers=self.max_workers): a queued task is taken
\* only by an idle worker thread
WorkerFreeAtLimit(tasks, self) == Busy(tasks) <= self.max_workers

WorkerFree(tasks, self) == Busy(tasks) < self.max_workers

\* the pause between two batches
BatchPause == 5 * Second

\* `if i + self.batch_size < len(stocks)` after the batch that starts at i
PauseAfterEveryBatch(stocks, i, self) == i < Len(stocks)

PauseDue(stocks, i, self) == i + self.batch_size < Len(stocks)

-----------------------------------------------------------------------------
(* One call of scan on a fresh instance, from entry to return *)

InvalidBuyIndicator ==
    [error |-> "Invalid buy indicator. Must be one of: ['macd', 'kdj']"]

InvalidSellIndicator ==
    [error |-> "Invalid sell indicator. Must be one of: ['macd', 'kdj']"]

NoStocksToScan == [error |-> "No stocks to scan"]

InitCall ==
    /\ df = << >>
    /\ buy_signals = << >>
    /\ sell_signals = << >>
    /\ et = [InitFrame EXCEPT !.pc = "idle"]
    /\ accepted = << >>
    /\ sim = [pc |-> "none", buy_indicator |-> "macd", sell_indicator |-> "macd",
              result |-> NoResult]
    /\ settings \in SettingsPool
    /\ scanner = NewMarketScanner(settings)
    /\ detector = NoDetector
    /\ \E pair \in IndicatorPairs, mt \in MinTradesPool, sl \in StockLists,
          mc \in MarketCaps, db \in Databases :
         /\ Len(sl) > 0 => (mc = << >> /\ db = ListedDatabase)
         /\ request = [ buy_indicator  |-> pair[1],
                        sell_indicator |-> pair[2],
                        min_trades     |-> mt,
                        stock_list     |-> sl,
                        market_cap     |-> mc,
                        database       |-> db,
                        exclude_rules  |-> << >>,
                        sort_rules     |-> << >>,
                        top_n          |-> 0,
                        scanned        |-> << >>,
                        total          |-> 0 ]
    /\ scan = [ pc             |-> "entry",
                stocks_to_scan |-> << >>,
                i              |-> 0,
                tasks          |-> << >>,
                batch          |-> EmptyBatch,
                trace          |-> << >>,
                results        |-> << >>,
                successful     |-> 0,
                failed         |-> 0,
                filtered       |-> << >>,
                out            |-> NoResult ]

\* the candidates the call resolves to
Resolved ==
    GetStocksToScan(request.stock_list, request.market_cap, request.database)

\* an invalid indicator name: the error is returned at once
ScanRejectIndicator ==
    /\ scan.pc = "entry"
    /\ ~ValidIndicator(request.buy_indicator) \/ ~ValidIndicator(request.sell_indicator)
    /\ scan' = [scan EXCEPT
                  !.pc = "done",
                  !.out = IF ~ValidIndicator(request.buy_indicator)
                            THEN InvalidBuyIndicator
                            ELSE InvalidSellIndicator]
    /\ UNCHANGED <<tradeVars, sim, request, otherVars>>

\* valid indicators, no candidate: the error is returned after the lookup
ScanRejectEmpty ==
    /\ scan.pc = "entry"
    /\ ValidIndicator(request.buy_indicator)
    /\ ValidIndicator(request.sell_indicator)
    /\ Len(Resolved) = 0
    /\ scan' = [scan EXCEPT !.pc = "done",
                            !.trace = Append(@, [op |-> "resolve"]),
                            !.out = NoStocksToScan]
    /\ UNCHANGED <<tradeVars, sim, request, otherVars>>

\* valid indicators and candidates: the tier is selected, _scan_stocks entered
ScanStart ==
    /\ scan.pc = "entry"
    /\ ValidIndicator(request.buy_indicator)
    /\ ValidIndicator(request.sell_indicator)
    /\ Len(Resolved) > 0
    /\ scanner' = AdjustRateLimiting(scanner, Len(Resolved), settings)
    /\ scan' = [scan EXCEPT !.pc = "scan_stocks",
                            !.stocks_to_scan = Resolved,
                            !.trace = Append(@, [op |-> "resolve"])]
    /\ request' = [request EXCEPT !.total = Len(Resolved)]
    /\ UNCHANGED <<tradeVars, sim, settings, detector>>

\* _scan_batch entered for the next slice (or for the whole list): every
\* symbol is submitted to the executor
BatchSubmit ==
    /\ scan.pc = "scan_stocks"
    /\ LET stocks == scan.stocks_to_scan
           batch == IF Batched(stocks, scanner)
                      THEN SliceFromTo(stocks, scan.i, scan.i + scanner.batch_size)
                      ELSE stocks
       IN  scan' = [scan EXCEPT
                      !.pc = "batch",
                      !.tasks = [j \in 1..Len(batch) |-> NewTask(batch[j])],
                      !.batch = EmptyBatch,
                      !.trace = Append(@, [op |-> "batch", start |-> scan.i,
                                           size |-> Len(batch)])]
    /\ UNCHANGED <<tradeVars, sim, request, otherVars>>

\* a worker thread runs one attempt of task j; a queued task is taken in
\* submission order when a worker is free
TaskAttempt(j) ==
    /\ scan.pc = "batch"
    /\ j \in 1..Len(scan.tasks)
    /\ scan.tasks[j].state \in {"queued", "running"}
    /\ scan.tasks[j].state = "queued" =>
          /\ \A k \in 1..(j - 1) : scan.tasks[k].state # "queued"
          /\ WorkerFree(scan.tasks, scanner)
    /\ \E o \in FetchOutcomes :
         scan' = [scan EXCEPT
                    !.tasks[j] = Attempt(@, o, scanner, request.buy_indicator,
                                         request.sell_indicator)]
    /\ UNCHANGED <<tradeVars, sim, request, otherVars>>

\* as_completed yields the finished future j; its result is counted
Collect(j) ==
    /\ scan.pc = "batch"
    /\ j \in 1..Len(scan.tasks)
    /\ scan.tasks[j].state = "done"
    /\ scan' = [scan EXCEPT
                  !.tasks[j].state = "collected",
                  !.batch = CollectResult(@, scan.tasks[j].result,
                                          request.min_trades)]
    /\ UNCHANGED <<tradeVars, sim, request, otherVars>>

\* every future was yielded: _scan_batch returns, _scan_stocks accumulates
\* and either pauses before the next slice or returns to scan
BatchReturn ==
    /\ scan.pc = "batch"
    /\ \A j \in 1..Len(scan.tasks) : scan.tasks[j].state = "collected"
    /\ LET stocks == scan.stocks_to_scan
           batched == Batched(stocks, scanner)
           more == batched /\ scan.i + scanner.batch_size < Len(stocks)
           results == scan.results \o scan.batch.results
       IN  /\ scan' = [scan EXCEPT
                         !.pc = IF more THEN "scan_stocks" ELSE "scanned",
                         !.i = IF more THEN @ + scanner.batch_size ELSE @,
                         !.tasks = << >>,
                         !.batch = EmptyBatch,
                         !.results = results,
                         !.successful = @ + scan.batch.successful,
                         !.failed = @ + scan.batch.failed,
                         !.trace = IF batched /\ PauseDue(stocks, scan.i, scanner)
                                     THEN Append(@, Sleep(BatchPause))
                                     ELSE @]
           /\ IF more
                THEN request' = request
                ELSE \E er \in ExcludeRuleLists :
                        request' = [request EXCEPT !.scanned = results,
                                                   !.exclude_rules = er]
    /\ UNCHANGED <<tradeVars, sim, otherVars>>

NextCall ==
    \/ ScanRejectIndicator
    \/ ScanRejectEmpty
    \/ ScanStart
    \/ BatchSubmit
    \/ \E j \in 1..MaxStocks : TaskAttempt(j)
    \/ \E j \in 1..MaxStocks : Collect(j)
    \/ BatchReturn
    \/ ScanFilter
    \/ ScanSort
    \/ ScanReturn

SpecCall == InitCall /\ [][NextCall]_vars

\* the threads of the pool and the main thread keep running
SpecCallFair == SpecCall /\ WF_vars(NextCall)

-----------------------------------------------------------------------------
(* Properties of the counters of a scan *)

\* the entries of the main thread's trace that open a batch
BatchesOf(trace) == SelectSeq(trace, LAMBDA e : e.op = "batch")

\* sizes of the batches opened so far, summed
RECURSIVE TotalSize(_)
TotalSize(batches) ==
    IF Len(batches) = 0 THEN 0 ELSE batches[1].size + TotalSize(Tail(batches))

\* tasks of the running batch whose future was yielded
CollectedTasks == {j \in 1..Len(scan.tasks) : scan.tasks[j].state = "collected"}

ReturnedSummary == scan.pc = "done" /\ "scan_summary" \in DOMAIN scan.out

\* C12: a returned scan_summary has successful_scans + failed_scans =
\* total_stocks_scanned = the number of candidate symbols, and
\* successful_scans = the number of results _scan_stocks returned; on the
\* way there the batches are consecutive slices that cover the candidates,
\* and every symbol whose future was yielded is counted once, as succeeded
\* or as failed.
C12_CountersAddUp ==
    LET batches == BatchesOf(scan.trace)
    IN  /\ ReturnedSummary =>
              LET s == scan.out.scan_summary
              IN  /\ s.successful_scans + s.failed_scans = s.total_stocks_scanned
                  /\ s.total_stocks_scanned = Len(scan.stocks_to_scan)
                  /\ s.total_stocks_scanned = Len(Resolved)
                  /\ s.successful_scans = Len(request.scanned)
                  /\ TotalSize(batches) = Len(scan.stocks_to_scan)
        /\ \A k \in 1..Len(batches) :
              batches[k].start = TotalSize(SubSeq(batches, 1, k - 1))
        /\ scan.pc = "batch" =>
              /\ scan.batch.successful + scan.batch.failed = Cardinality(CollectedTasks)
              /\ scan.batch.successful = Len(scan.batch.results)
              /\ scan.successful + scan.failed + Len(scan.tasks) = TotalSize(batches)
              /\ \A j \in 1..Len(scan.tasks) :
                    scan.tasks[j].symbol
                        = scan.stocks_to_scan[batches[Len(batches)].start + j]
        /\ scan.pc = "scan_stocks" =>
              /\ scan.successful + scan.failed = TotalSize(batches)
              /\ scan.successful = Len(scan.results)
              /\ scan.i = TotalSize(batches)

\* a scan of two candidates in two batches returned one success, one failure
C12_Witness ==
    /\ ReturnedSummary
    /\ Len(BatchesOf(scan.trace)) = 2
    /\ scan.out.scan_summary.successful_scans = 1
    /\ scan.out.scan_summary.failed_scans = 1
    /\ scan.out.scan_summary.total_stocks_scanned = 2

\* C13: stocks_after_filters is the number of accepted results that
\* survive the exclude rules, whatever top_n is.
C13_PostFilterCount ==
    ReturnedSummary =>
        scan.out.scan_summary.stocks_after_filters = Len(scan.filtered)

-----------------------------------------------------------------------------
(* Properties of the per-symbol tasks *)

\* positions of the fetches in a task's events
FetchesOf(events) == {q \in 1..Len(events) : events[q] = Fetch}

\* descriptions that name an upstream throttle, in lower case
ThrottleTexts == {Lower(TooManyRequestsText), Lower(RateLimitedText)}

\* the result is the error _scan_single_stock returns for an exception
\* with the given description
IsErrorScanning(result, text) ==
    /\ "error" \in DOMAIN result
    /\ result.error[1] = "Error scanning"
    /\ result.error[3] = text

\* C14: a task fetches at most 3 times; every fetch after the first comes
\* right after the 2-second backoff and the request delay, and a task that
\* is going to fetch again last failed with a description that contains
\* 'rate limit' or 'too many requests' in any case; a task that has
\* returned holds an error or a simulation result, and an error for a
\* throttle description only after the third attempt.
C14_RetryOnlyOnThrottle ==
    \A j \in 1..Len(scan.tasks) :
        LET t == scan.tasks[j]
            fetches == FetchesOf(t.events)
        IN  /\ Cardinality(fetches) <= 3
            /\ t.state = "queued" => fetches = {}
            /\ \A q \in fetches :
                  /\ q >= 2
                  /\ t.events[q - 1] = Sleep(scanner.rate_limit_delay)
                  /\ q > 2 => /\ q > 3
                              /\ t.events[q - 2] = Sleep(2 * Second)
                              /\ t.events[q - 3] = Fetch
            /\ t.state = "running" =>
                  /\ t.attempt \in {1, 2}
                  /\ Cardinality(fetches) = t.attempt
                  /\ t.error_msg \in ThrottleTexts
                  /\ t.events[Len(t.events)] = Sleep(2 * Second)
            /\ t.state \in {"done", "collected"} =>
                  /\ Cardinality(fetches) = t.attempt
                  /\ t.events[Len(t.events)] = Fetch
                  /\ \/ "error" \in DOMAIN t.result
                     \/ DOMAIN t.result = {"stock", "trading_summary", "statistics"}
                  /\ (\E x \in {TooManyRequestsText, RateLimitedText} :
                          IsErrorScanning(t.result, x)) => t.attempt = 3
                  /\ (/\ t.attempt > 1
                      /\ IsErrorScanning(t.result, TimedOutText)) =>
                          Len(t.events) = 3 * t.attempt - 1

\* a symbol throttled three times in a row has returned an error
C14_Witness ==
    \E j \in 1..Len(scan.tasks) :
        /\ scan.tasks[j].state = "done"
        /\ scan.tasks[j].attempt = 3
        /\ IsErrorScanning(scan.tasks[j].result, TooManyRequestsText)

\* C15: a task that does not finish is counted as failed once the
\* per-symbol timeout has passed, so the batch and the scan still return.
C15_TimeoutBoundsBatch ==
    (\E j \in 1..Len(scan.tasks) : scan.tasks[j].state = "hung")
        ~> (scan.pc = "done")

\* the tasks of the running batch that were yielded and count as failed
FailedTasks ==
    {j \in CollectedTasks :
        \/ "error" \in DOMAIN scan.tasks[j].result
        \/ scan.tasks[j].result.trading_summary.total_trades < request.min_trades}

\* the sequence holds exactly the members of the set, each once
Enumerates(xs, set) ==
    /\ Len(xs) = Cardinality(set)
    /\ \A x \in set : \E k \in 1..Len(xs) : xs[k] = x

\* C16: with valid indicators and a non-empty candidate set, a scan that
\* returns returns a scan_summary and no error, whatever the tasks met; in
\* the running batch every yielded task that failed has added exactly 1 to
\* failed and nothing to the results, and the results are those of the
\* other yielded tasks, each as its own symbol and outcome give it.
C16_FailuresAreCounted ==
    /\ scan.pc = "done" /\ Len(scan.stocks_to_scan) > 0 =>
          /\ DOMAIN scan.out = {"scan_summary", "top_stocks", "top_results"}
          /\ scan.out.scan_summary.failed_scans
                = Len(scan.stocks_to_scan) - Len(request.scanned)
    /\ scan.pc = "batch" =>
          /\ scan.batch.failed = Cardinality(FailedTasks)
          /\ Enumerates(scan.batch.results,
                        {scan.tasks[j].result : j \in CollectedTasks \ FailedTasks})
          /\ \A j \in CollectedTasks \ FailedTasks :
                scan.tasks[j].result.stock = Upper(scan.tasks[j].symbol)
          /\ \A j \in 1..Len(scan.tasks) :
                scan.tasks[j].symbol
                    = scan.stocks_to_scan[scan.i + j]

\* a batch of two: the first symbol's fetch raised, the second was accepted
C16_Witness ==
    /\ scan.pc = "batch"
    /\ Len(scan.tasks) = 2
    /\ CollectedTasks = {1, 2}
    /\ IsErrorScanning(scan.tasks[1].result, TimedOutText)
    /\ scan.batch.failed = 1
    /\ scan.batch.results = << scan.tasks[2].result >>

\* the yielded tasks of the running batch whose fetch and simulation
\* succeeded
SimulatedTasks ==
    {j \in CollectedTasks : "error" \notin DOMAIN scan.tasks[j].result}

\* C17: a symbol whose fetch and simulation succeeded is in the result
\* list exactly when its total_trades >= min_trades; one below the minimum
\* is counted as failed although it holds no error, and no returned result
\* is below the minimum.
C17_MinTradesGate ==
    /\ scan.pc = "batch" =>
          /\ \A j \in SimulatedTasks :
                LET r == scan.tasks[j].result
                IN  (\E k \in 1..Len(scan.batch.results) : scan.batch.results[k] = r)
                        <=> r.trading_summary.total_trades >= request.min_trades
          /\ scan.batch.failed >=
                Cardinality({j \in SimulatedTasks :
                    scan.tasks[j].result.trading_summary.total_trades
                        < request.min_trades})
          /\ scan.batch.successful =
                Cardinality({j \in SimulatedTasks :
                    ~(scan.tasks[j].result.trading_summary.total_trades
                        < request.min_trades)})
    /\ ReturnedSummary =>
          \A k \in 1..Len(scan.out.top_results) :
              scan.out.top_results[k].trading_summary.total_trades
                  >= request.min_trades

\* two simulated symbols with 2 and 4 trades under min_trades = 3: the
\* first counted as failed, the second accepted
C17_Witness ==
    /\ scan.pc = "batch"
    /\ request.min_trades = 3
    /\ SimulatedTasks = {1, 2}
    /\ scan.tasks[1].result.trading_summary.total_trades = 2
    /\ scan.tasks[2].result.trading_summary.total_trades = 4
    /\ scan.batch.failed = 1
    /\ scan.batch.results = << scan.tasks[2].result >>

\* the spellings of 'macd' and 'kdj' among the names callers pass
AcceptedSpellings ==
    { MacdName, KdjName, << "K", "D", "J" >>, << "M", "a", "c", "d" >> }

\* C18: scan returns an error, with no task ever submitted, exactly when an
\* indicator is not 'macd' or 'kdj' in some mix of cases or the resolved
\* candidate set is empty; for an invalid indicator the candidates are not
\* even looked up, and the buy indicator is reported first.
C18_RejectsBeforeScanning ==
    LET badBuy == request.buy_indicator \notin AcceptedSpellings
        badSell == request.sell_indicator \notin AcceptedSpellings
        lookedUp == \E k \in 1..Len(scan.trace) : scan.trace[k].op = "resolve"
        submitted == \E k \in 1..Len(scan.trace) : scan.trace[k].op = "batch"
    IN  /\ (badBuy \/ badSell \/ Len(Resolved) = 0) =>
              /\ ~submitted
              /\ scan.tasks = << >>
              /\ scan.pc \in {"entry", "done"}
        /\ (badBuy \/ badSell) => ~lookedUp
        /\ scan.pc = "done" =>
              /\ "error" \in DOMAIN scan.out
                    <=> (badBuy \/ badSell \/ Len(Resolved) = 0)
              /\ badBuy => scan.out = InvalidBuyIndicator
              /\ (~badBuy /\ badSell) => scan.out = InvalidSellIndicator
              /\ (~badBuy /\ ~badSell /\ Len(Resolved) = 0) =>
                    /\ scan.out = NoStocksToScan
                    /\ lookedUp

\* valid indicators in upper case and an empty database: rejected after the
\* lookup
C18_Witness ==
    /\ scan.pc = "done"
    /\ request.sell_indicator = << "K", "D", "J" >>
    /\ request.market_cap = << "all", "large_cap" >>
    /\ scan.out = NoStocksToScan
    /\ scan.trace = << [op |-> "resolve"] >>

\* an invalid sell indicator rejected without a lookup
C18_WitnessIndicator ==
    /\ scan.pc = "done"
    /\ request.buy_indicator = KdjName
    /\ scan.out = InvalidSellIndicator
    /\ scan.trace = << >>

-----------------------------------------------------------------------------
(* SignalDetector *)

\* a float that is NaN, or an argument that is None; a number x is <<x>>.
\* Histogram values are in units of 1/ShareScale, K and D in units of
\* 1/PriceScale.
NaN == << >>

\* pd.isna
IsNa(x) == x = NaN

\* the default slow_period of calculate_macd and k_period of calculate_kdj
SlowPeriod == 26

KPeriod == 9

\* the least number of bars get_current_signal works on
MinSignalBars == 3

kdj_buy_threshold == 20 * PriceScale

kdj_sell_threshold == 80 * PriceScale

\* calculate_macd: an error below slow_period bars, else the series the
\* call computes (hist stands for that series)
CalculateMacd(bars, hist) ==
    IF bars = 0 \/ bars < SlowPeriod
      THEN [error |-> "Insufficient data for MACD calculation"]
      ELSE [histogram |-> hist]

\* calculate_kdj: an error below k_period bars, else the computed series
CalculateKdj(bars, k, d) ==
    IF bars = 0 \/ bars < KPeriod
      THEN [error |-> "Insufficient data for KDJ calculation"]
      ELSE [k |-> k, d |-> d]

\* pd.Series([np.nan] * len(df))
ZeroSeries(bars) == [j \in 1..bars |-> <<0>>]

NaNSeries(bars) == [j \in 1..bars |-> NaN]

\* series.iloc[index]
Iloc(series, index) == series[index + 1]

\* `yesterday < 0 and today > 0`
GoldenCrossDownwards(yesterday, today) == yesterday > 0 /\ today < 0

GoldenCrossFromZero(yesterday, today) == yesterday <= 0 /\ today > 0

GoldenCross(yesterday, today) == yesterday < 0 /\ today > 0

\* `threshold if threshold is not None else default`
ThresholdIfTruthy(threshold, default) ==
    IF threshold # NaN /\ threshold[1] # 0 THEN threshold[1] ELSE default

ThresholdOrDefault(threshold, default) ==
    IF threshold # NaN THEN threshold[1] ELSE default

\* `was_rising and now_declining and in_positive_territory`
PeakDetectedAfterPlateau(day_before_yesterday, yesterday, today) ==
    LET was_rising == day_before_yesterday <= yesterday
        now_declining == yesterday > today
        in_positive_territory == yesterday > 0
    IN  was_rising /\ now_declining /\ in_positive_territory

PeakDetected(day_before_yesterday, yesterday, today) ==
    LET was_rising == day_before_yesterday < yesterday
        now_declining == yesterday > today
        in_positive_territory == yesterday > 0
    IN  was_rising /\ now_declining /\ in_positive_territory

\* _check_buy_signal
CheckBuySignal(index, indicator, macd_histogram, kdj_k, kdj_d, threshold) ==
    IF Lower(indicator) = MacdName
      THEN IF index < 1 THEN FALSE
           ELSE LET yesterday == Iloc(macd_histogram, index - 1)
                    today == Iloc(macd_histogram, index)
                IN  IF IsNa(yesterday) \/ IsNa(today) THEN FALSE
                    ELSE GoldenCross(yesterday[1], today[1])
    ELSE IF Lower(indicator) = KdjName
      THEN LET k_val == Iloc(kdj_k, index)
               d_val == Iloc(kdj_d, index)
               thresh == ThresholdOrDefault(threshold, kdj_buy_threshold)
           IN  IF IsNa(k_val) \/ IsNa(d_val) THEN FALSE
               ELSE k_val[1] < thresh /\ d_val[1] < thresh
    ELSE FALSE

\* _check_sell_signal
CheckSellSignal(index, indicator, macd_histogram, kdj_k, kdj_d, threshold) ==
    IF Lower(indicator) = MacdName
      THEN IF index < 2 THEN FALSE
           ELSE LET day_before_yesterday == Iloc(macd_histogram, index - 2)
                    yesterday == Iloc(macd_histogram, index - 1)
                    today == Iloc(macd_histogram, index)
                IN  IF IsNa(day_before_yesterday) \/ IsNa(yesterday) \/ IsNa(today)
                      THEN FALSE
                      ELSE PeakDetected(day_before_yesterday[1], yesterday[1],
                                        today[1])
    ELSE IF Lower(indicator) = KdjName
      THEN LET k_val == Iloc(kdj_k, index)
               d_val == Iloc(kdj_d, index)
               thresh == ThresholdOrDefault(threshold, kdj_sell_threshold)
           IN  IF IsNa(k_val) \/ IsNa(d_val) THEN FALSE
               ELSE k_val[1] > thresh /\ d_val[1] > thresh
    ELSE FALSE

\* generate_signals: the two 0/1 lists
GenerateSignals(det) ==
    LET macd_result == CalculateMacd(det.bars, det.histogram)
        kdj_result == CalculateKdj(det.bars, det.k, det.d)
        macd_histogram == IF "error" \in DOMAIN macd_result
                            THEN NaNSeries(det.bars) ELSE macd_result.histogram
        kdj_k == IF "error" \in DOMAIN kdj_result
                   THEN NaNSeries(det.bars) ELSE kdj_result.k
        kdj_d == IF "error" \in DOMAIN kdj_result
                   THEN NaNSeries(det.bars) ELSE kdj_result.d
    IN  [ buy_signals |->
            [j \in 1..det.bars |->
                IF CheckBuySignal(j - 1, det.buy_indicator, macd_histogram,
                                  kdj_k, kdj_d, det.buy_threshold)
                  THEN 1 ELSE 0],
          sell_signals |->
            [j \in 1..det.bars |->
                IF CheckSellSignal(j - 1, det.sell_indicator, macd_histogram,
                                   kdj_k, kdj_d, det.sell_threshold)
                  THEN 1 ELSE 0] ]

\* SignalType
SignalType == [BUY |-> "BUY", SELL |-> "SELL", HOLD |-> "HOLD"]

\* `round(float(x), 4) if pd.notna(x) else None`
Round4OrNone(x) == IF IsNa(x) THEN NaN ELSE <<Round4(x[1])>>

\* `round(float(x), 2) if pd.notna(x) else None`
Round2OrNone(x) == IF IsNa(x) THEN NaN ELSE <<Round2P(x[1])>>

\* the indicator_values dict of get_current_signal
IndicatorValues(macd_histogram, kdj_k, kdj_d) ==
    LET n == Len(macd_histogram)
        base == [ macd_histogram_today |->
                      Round4OrNone(macd_histogram[n]),
                  macd_histogram_yesterday |->
                      Round4OrNone(macd_histogram[n - 1]),
                  kdj_k |-> Round2OrNone(kdj_k[Len(kdj_k)]),
                  kdj_d |-> Round2OrNone(kdj_d[Len(kdj_d)]) ]
    IN  IF n >= MinSignalBars
          THEN [ f \in DOMAIN base \cup {"macd_histogram_day_before"} |->
                   IF f = "macd_histogram_day_before"
                     THEN Round4OrNone(macd_histogram[n - 2])
                     ELSE base[f] ]
          ELSE base

\* _build_buy_reasoning: the template and the values it is filled with
BuildBuyReasoning(indicator, values, threshold) ==
    IF Lower(indicator) = MacdName
      THEN [text |-> "MACD golden cross: histogram crossed above zero",
            shown |-> <<values.macd_histogram_yesterday,
                        values.macd_histogram_today>>]
    ELSE IF Lower(indicator) = KdjName
      THEN [text |-> "KDJ oversold",
            shown |-> <<values.kdj_k, values.kdj_d,
                        IF threshold # NaN THEN threshold
                        ELSE <<kdj_buy_threshold>> >>]
    ELSE [text |-> "Buy signal detected", shown |-> << >>]

\* _build_sell_reasoning
BuildSellReasoning(indicator, values, threshold) ==
    IF Lower(indicator) = MacdName
      THEN [text |-> "MACD peak detected: histogram peaked and declining",
            shown |-> <<values.macd_histogram_day_before,
                        values.macd_histogram_yesterday,
                        values.macd_histogram_today>>]
    ELSE IF Lower(indicator) = KdjName
      THEN [text |-> "KDJ overbought",
            shown |-> <<values.kdj_k, values.kdj_d,
                        IF threshold # NaN THEN threshold
                        ELSE <<kdj_sell_threshold>> >>]
    ELSE [text |-> "Sell signal detected", shown |-> << >>]

\* _build_hold_reasoning
BuildHoldReasoning(buy_ind, sell_ind, values) ==
    LET macd_part == IF Lower(buy_ind) = MacdName \/ Lower(sell_ind) = MacdName
                       THEN <<values.macd_histogram_yesterday,
                              values.macd_histogram_today>>
                       ELSE << >>
        kdj_part == IF Lower(buy_ind) = KdjName \/ Lower(sell_ind) = KdjName
                      THEN <<values.kdj_k, values.kdj_d>>
                      ELSE << >>
    IN  [text |-> "No signal", shown |-> macd_part \o kdj_part]

\* the end of get_current_signal: the signal of the two flags
ResolveSellFirst(is_buy, is_sell, det, indicator_values) ==
    IF is_sell
      THEN <<SignalType.SELL, BuildSellReasoning(det.sell_indicator, indicator_values,
                                      det.sell_threshold), indicator_values>>
    ELSE IF is_buy
      THEN <<SignalType.BUY, BuildBuyReasoning(det.buy_indicator, indicator_values,
                                    det.buy_threshold), indicator_values>>
    ELSE <<SignalType.HOLD, BuildHoldReasoning(det.buy_indicator, det.sell_indicator,
                                    indicator_values), indicator_values>>

ResolveBuyFirst(is_buy, is_sell, det, indicator_values) ==
    IF is_buy
      THEN <<SignalType.BUY, BuildBuyReasoning(det.buy_indicator, indicator_values,
                                    det.buy_threshold), indicator_values>>
    ELSE IF is_sell
      THEN <<SignalType.SELL, BuildSellReasoning(det.sell_indicator, indicator_values,
                                      det.sell_threshold), indicator_values>>
    ELSE <<SignalType.HOLD, BuildHoldReasoning(det.buy_indicator, det.sell_indicator,
                                    indicator_values), indicator_values>>

Resolve(is_buy, is_sell, det, indicator_values) ==
    IF is_buy /\ is_sell
      THEN <<SignalType.HOLD,
             [text |-> "Conflicting signals from buy and sell indicators",
              shown |-> << >>],
             indicator_values>>
    ELSE IF is_buy
      THEN <<SignalType.BUY, BuildBuyReasoning(det.buy_indicator, indicator_values,
                                    det.buy_threshold), indicator_values>>
    ELSE IF is_sell
      THEN <<SignalType.SELL, BuildSellReasoning(det.sell_indicator, indicator_values,
                                      det.sell_threshold), indicator_values>>
    ELSE <<SignalType.HOLD, BuildHoldReasoning(det.buy_indicator, det.sell_indicator,
                                    indicator_values), indicator_values>>

\* the empty dict
EmptyDict == [f \in {} |-> NaN]

\* get_current_signal: (signal_type, reasoning, indicator_values)
GetCurrentSignal(det) ==
    IF det.bars < MinSignalBars
      THEN <<SignalType.HOLD,
             [text |-> "Insufficient data for signal detection", shown |-> << >>],
             EmptyDict>>
    ELSE
      LET macd_result == CalculateMacd(det.bars, det.histogram)
          kdj_result == CalculateKdj(det.bars, det.k, det.d)
      IN  IF "error" \in DOMAIN macd_result \/ "error" \in DOMAIN kdj_result
            THEN <<SignalType.HOLD,
                   [text |-> "Error calculating indicators", shown |-> << >>],
                   EmptyDict>>
            ELSE
              LET macd_histogram == macd_result.histogram
                  kdj_k == kdj_result.k
                  kdj_d == kdj_result.d
                  last_idx == det.bars - 1
                  is_buy == CheckBuySignal(last_idx, det.buy_indicator,
                                macd_histogram, kdj_k, kdj_d, det.buy_threshold)
                  is_sell == CheckSellSignal(last_idx, det.sell_indicator,
                                macd_histogram, kdj_k, kdj_d, det.sell_threshold)
              IN  Resolve(is_buy, is_sell, det,
                          IndicatorValues(macd_histogram, kdj_k, kdj_d))

-----------------------------------------------------------------------------
(* Calls of the SignalDetector: the frame handed in has `bars` rows, and
   histogram, k and d stand for the series TechnicalAnalysis computes from
   it.  Every series is a flat base with one short window of drawn values,
   at the start or at the end. *)

\* bars beyond slow_period
SignalSlack == 0

SignalLens ==
    {0, MinSignalBars - 1, MinSignalBars, KPeriod - 1, KPeriod, SlowPeriod - 1}
        \cup (SlowPeriod .. SlowPeriod + SignalSlack)

HistValues == {NaN, <<0 - 15>>, <<0>>, <<15>>}

KdValues == {NaN, <<kdj_buy_threshold - 10>>, <<kdj_buy_threshold>>,
             <<kdj_sell_threshold>>, <<kdj_sell_threshold + 10>>}

WindowSeries(n, base, w, vals) ==
    [j \in 1..n |-> IF j \in (w + 1)..(w + Len(vals)) THEN vals[j - w] ELSE base]

HistogramFamily(n) ==
    { WindowSeries(n, <<0>>, w, vals) :
        w \in {0, n - MinSignalBars}, vals \in [1..MinSignalBars -> HistValues] }

KdFamily(n) ==
    { WindowSeries(n, <<50 * PriceScale>>, n - 1, <<v>>) : v \in KdValues }

DetectorIndicators == {MacdName, <<"K", "D", "J">>}

\* (buy_threshold, sell_threshold): the defaults, or a custom pair
DetectorThresholds ==
    {<<NaN, NaN>>, <<<<50 * PriceScale>>, <<50 * PriceScale>>>>, <<<<0>>, <<0>>>>}

NoSignal == <<"none", [text |-> "", shown |-> << >>], EmptyDict>>

InitSignal ==
    /\ df = << >>
    /\ buy_signals = << >>
    /\ sell_signals = << >>
    /\ et = [InitFrame EXCEPT !.pc = "idle"]
    /\ accepted = << >>
    /\ sim = [pc |-> "none", buy_indicator |-> "macd", sell_indicator |-> "macd",
              result |-> NoResult]
    /\ request = NoRequest
    /\ scan = [pc |-> "none"]
    /\ settings = DefaultSettings
    /\ scanner = NewMarketScanner(settings)
    /\ \E n \in SignalLens, bi \in DetectorIndicators, si \in DetectorIndicators,
          th \in DetectorThresholds :
        \E h \in (IF n >= SlowPeriod THEN HistogramFamily(n) ELSE {<< >>}),
           k \in (IF n >= KPeriod THEN KdFamily(n) ELSE {<< >>}),
           d \in (IF n >= KPeriod THEN KdFamily(n) ELSE {<< >>}) :
            detector = [ pc |-> "entry", bars |-> n,
                         histogram |-> h, k |-> k, d |-> d,
                         buy_indicator |-> bi, sell_indicator |-> si,
                         buy_threshold |-> th[1], sell_threshold |-> th[2],
                         buy_signals |-> << >>, sell_signals |-> << >>,
                         out |-> NoSignal ]

\* a call of generate_signals
DetectorGenerate ==
    /\ detector.pc = "entry"
    /\ LET lists == GenerateSignals(detector)
       IN  detector' = [detector EXCEPT !.pc = "generated",
                                        !.buy_signals = lists.buy_signals,
                                        !.sell_signals = lists.sell_signals]
    /\ UNCHANGED <<tradeVars, sim, scanVars, settings, scanner>>

\* a call of get_current_signal
DetectorCurrent ==
    /\ detector.pc = "entry"
    /\ detector' = [detector EXCEPT !.pc = "current",
                                    !.out = GetCurrentSignal(detector)]
    /\ UNCHANGED <<tradeVars, sim, scanVars, settings, scanner>>

NextSignal ==
    \/ DetectorGenerate
    \/ DetectorCurrent

SpecSignal == InitSignal /\ [][NextSignal]_vars

-----------------------------------------------------------------------------
(* C19 *)

\* the two flags of the last bar, read off the series
LastHist(back) == detector.histogram[detector.bars - back]

LastDefined(series) == ~IsNa(series[detector.bars])

BuyAtLastBar ==
    IF Lower(detector.buy_indicator) = MacdName
      THEN /\ ~IsNa(LastHist(1)) /\ ~IsNa(LastHist(0))
           /\ LastHist(1)[1] < 0 /\ LastHist(0)[1] > 0
      ELSE /\ LastDefined(detector.k) /\ LastDefined(detector.d)
           /\ LET t == IF detector.buy_threshold = NaN THEN kdj_buy_threshold
                       ELSE detector.buy_threshold[1]
              IN  detector.k[detector.bars][1] < t /\ detector.d[detector.bars][1] < t

SellAtLastBar ==
    IF Lower(detector.sell_indicator) = MacdName
      THEN /\ ~IsNa(LastHist(2)) /\ ~IsNa(LastHist(1)) /\ ~IsNa(LastHist(0))
           /\ LastHist(2)[1] < LastHist(1)[1]
           /\ LastHist(1)[1] > LastHist(0)[1]
           /\ LastHist(1)[1] > 0
      ELSE /\ LastDefined(detector.k) /\ LastDefined(detector.d)
           /\ LET t == IF detector.sell_threshold = NaN THEN kdj_sell_threshold
                       ELSE detector.sell_threshold[1]
              IN  detector.k[detector.bars][1] > t /\ detector.d[detector.bars][1] > t

C19_WitnessShort ==
    /\ detector.pc = "current" /\ detector.bars = 2
    /\ detector.out[2].text = "Insufficient data for signal detection"

C19_WitnessError ==
    /\ detector.pc = "current" /\ detector.bars = KPeriod
    /\ detector.out[2].text = "Error calculating indicators"

C19_WitnessBuy == detector.pc = "current" /\ detector.out[1] = "BUY"

C19_WitnessSell == detector.pc = "current" /\ detector.out[1] = "SELL"

-----------------------------------------------------------------------------
(* C20 *)

\* the histogram generate_signals works on: all NaN when MACD failed
GeneratedHistogram ==
    IF detector.bars >= SlowPeriod THEN detector.histogram
    ELSE [j \in 1..detector.bars |-> NaN]

\* C20: with MACD as buy indicator, the buy flag of bar i is set exactly
\* when i >= 1, histogram[i-1] and histogram[i] are both defined,
\* histogram[i-1] < 0 and histogram[i] > 0, both strictly.
C20_MacdBuyFlag ==
    (detector.pc = "generated" /\ Lower(detector.buy_indicator) = MacdName) =>
        /\ Len(detector.buy_signals) = detector.bars
        /\ \A i \in 0..(detector.bars - 1) :
             detector.buy_signals[i + 1] = 1 <=>
                /\ i >= 1
                /\ GeneratedHistogram[i] # NaN
                /\ GeneratedHistogram[i + 1] # NaN
                /\ GeneratedHistogram[i][1] < 0
                /\ GeneratedHistogram[i + 1][1] > 0
        /\ \A i \in 0..(detector.bars - 1) : detector.buy_signals[i + 1] \in {0, 1}

\* flags were generated from a histogram that crosses zero at bar 1
C20_Witness ==
    /\ detector.pc = "generated"
    /\ Lower(detector.buy_indicator) = MacdName
    /\ detector.bars >= SlowPeriod
    /\ detector.buy_signals[2] = 1
    /\ detector.buy_signals[1] = 0

\* a value of exactly 0 on the day before gives no flag
C20_WitnessZero ==
    /\ detector.pc = "generated"
    /\ Lower(detector.buy_indicator) = MacdName
    /\ detector.bars >= SlowPeriod
    /\ detector.histogram[detector.bars - 1] = <<0>>
    /\ detector.histogram[detector.bars] = <<15>>
    /\ detector.buy_signals[detector.bars] = 0

-----------------------------------------------------------------------------
(* C21 *)

\* C21: with MACD as sell indicator, the sell flag of bar i is set exactly
\* when i >= 2, the three histogram values are defined,
\* histogram[i-2] < histogram[i-1], histogram[i-1] > histogram[i] and
\* histogram[i-1] > 0; a plateau before the decline gives no flag.
C21_MacdSellFlag ==
    (detector.pc = "generated" /\ Lower(detector.sell_indicator) = MacdName) =>
        /\ Len(detector.sell_signals) = detector.bars
        /\ \A i \in 0..(detector.bars - 1) :
             /\ detector.sell_signals[i + 1] \in {0, 1}
             /\ detector.sell_signals[i + 1] = 1 <=>
                  /\ i >= 2
                  /\ GeneratedHistogram[i - 1] # NaN
                  /\ GeneratedHistogram[i] # NaN
                  /\ GeneratedHistogram[i + 1] # NaN
                  /\ GeneratedHistogram[i - 1][1] < GeneratedHistogram[i][1]
                  /\ GeneratedHistogram[i][1] > GeneratedHistogram[i + 1][1]
                  /\ GeneratedHistogram[i][1] > 0
        /\ \A i \in 2..(detector.bars - 1) :
             (/\ GeneratedHistogram[i - 1] # NaN
              /\ GeneratedHistogram[i - 1] = GeneratedHistogram[i])
                => detector.sell_signals[i + 1] = 0

\* flags were generated from a histogram with a peak at bar 1 (flag at bar 2)
C21_Witness ==
    /\ detector.pc = "generated"
    /\ Lower(detector.sell_indicator) = MacdName
    /\ detector.bars >= SlowPeriod
    /\ detector.sell_signals[3] = 1

\* a positive plateau followed by a decline, and no flag
C21_WitnessPlateau ==
    /\ detector.pc = "generated"
    /\ Lower(detector.sell_indicator) = MacdName
    /\ detector.bars >= SlowPeriod
    /\ detector.histogram[detector.bars - 2] = <<15>>
    /\ detector.histogram[detector.bars - 1] = <<15>>
    /\ detector.histogram[detector.bars] = <<0>>
    /\ detector.sell_signals[detector.bars] = 0

-----------------------------------------------------------------------------
(* C22 *)

\* the K and D series generate_signals works on: all NaN when KDJ failed
GeneratedK ==
    IF detector.bars >= KPeriod THEN detector.k
    ELSE [j \in 1..detector.bars |-> NaN]

GeneratedD ==
    IF detector.bars >= KPeriod THEN detector.d
    ELSE [j \in 1..detector.bars |-> NaN]

BuyThresholdUsed ==
    IF detector.buy_threshold = NaN THEN 20 * PriceScale
    ELSE detector.buy_threshold[1]

SellThresholdUsed ==
    IF detector.sell_threshold = NaN THEN 80 * PriceScale
    ELSE detector.sell_threshold[1]

\* C22: with KDJ, the buy flag of bar i is set exactly when K[i] and D[i]
\* are defined and both strictly below the buy threshold, the sell flag
\* exactly when both are strictly above the sell threshold; the thresholds
\* are 20 and 80 unless supplied, and a supplied 0 is used as given.
C22_KdjFlags ==
    detector.pc = "generated" =>
        /\ Lower(detector.buy_indicator) = KdjName =>
             \A j \in 1..detector.bars :
                detector.buy_signals[j] = 1 <=>
                   /\ GeneratedK[j] # NaN /\ GeneratedD[j] # NaN
                   /\ GeneratedK[j][1] < BuyThresholdUsed
                   /\ GeneratedD[j][1] < BuyThresholdUsed
        /\ Lower(detector.sell_indicator) = KdjName =>
             \A j \in 1..detector.bars :
                detector.sell_signals[j] = 1 <=>
                   /\ GeneratedK[j] # NaN /\ GeneratedD[j] # NaN
                   /\ GeneratedK[j][1] > SellThresholdUsed
                   /\ GeneratedD[j][1] > SellThresholdUsed

\* a supplied threshold of 0: K and D just below 20 give no buy flag, and
\* the same bar is flagged for sale
C22_Witness ==
    /\ detector.pc = "generated"
    /\ Lower(detector.buy_indicator) = KdjName
    /\ Lower(detector.sell_indicator) = KdjName
    /\ detector.buy_threshold = <<0>>
    /\ detector.bars >= KPeriod
    /\ detector.k[detector.bars] = <<20 * PriceScale - 10>>
    /\ detector.d[detector.bars] = <<20 * PriceScale - 10>>
    /\ detector.buy_signals[detector.bars] = 0
    /\ detector.sell_signals[detector.bars] = 1

\* default thresholds: exactly 20 gives no buy flag, just below 20 does
C22_WitnessDefault ==
    /\ detector.pc = "generated"
    /\ Lower(detector.buy_indicator) = KdjName
    /\ detector.buy_threshold = NaN
    /\ detector.bars >= KPeriod
    /\ detector.k[detector.bars] = <<20 * PriceScale - 10>>
    /\ detector.d[detector.bars] = <<20 * PriceScale - 10>>
    /\ detector.buy_signals[detector.bars] = 1

-----------------------------------------------------------------------------
(* A scan of one symbol, from the fetch of its bars through simulate and
   the trade loop to the dictionary scan returns *)

\* lines 273-277 of _scan_single_stock: the symbol is added, the trade log
\* removed
StripKeepingTrades(result, symbol) ==
    [f \in DOMAIN result \cup {"stock"} |->
        IF f = "stock" THEN Upper(symbol) ELSE result[f]]

Strip(result, symbol) ==
    [f \in (DOMAIN result \cup {"stock"}) \ {"trades"} |->
        IF f = "stock" THEN Upper(symbol) ELSE result[f]]

\* min_trades of the scans of one symbol
SymbolMinTrades == {0, 3}

InitSymbol ==
    /\ \E n \in SimLens, k \in 0..(NumSeries - 1) :
         /\ df = MkSeries(n, k)
         /\ buy_signals \in SignalFamily(n)
         /\ sell_signals \in SignalFamily(n)
    /\ et = [InitFrame EXCEPT !.pc = "idle"]
    /\ accepted = << >>
    /\ \E bi \in Indicators, si \in Indicators :
         sim = [pc |-> "none", buy_indicator |-> bi, sell_indicator |-> si,
                result |-> NoResult]
    /\ \E mt \in SymbolMinTrades :
         request = [ exclude_rules |-> << >>,
                     sort_rules    |-> << >>,
                     top_n         |-> 0,
                     scanned       |-> << >>,
                     total         |-> 1,
                     min_trades    |-> mt,
                     stock_list    |-> << SymbolPool[2] >> ]
    /\ scan = [ pc          |-> "task",
                task_result |-> NoResult,
                results     |-> << >>,
                successful  |-> 0,
                failed      |-> 0,
                filtered    |-> << >>,
                out         |-> NoResult ]
    /\ settings = DefaultSettings
    /\ scanner = NewMarketScanner(settings)
    /\ detector = NoDetector

\* the task fetched df: too few bars return the error, else simulate is
\* called
SymbolFetch ==
    /\ scan.pc = "task"
    /\ IF TooFewBars(df)
         THEN /\ scan' = [scan EXCEPT
                            !.pc = "returned",
                            !.task_result = InsufficientDataFor(request.stock_list[1])]
              /\ sim' = sim
         ELSE /\ scan' = [scan EXCEPT !.pc = "simulating"]
              /\ sim' = [sim EXCEPT !.pc = "entry"]
    /\ UNCHANGED <<tradeVars, request, otherVars>>

\* simulate returned: lines 270-279
SymbolStrip ==
    /\ scan.pc = "simulating"
    /\ sim.pc = "done"
    /\ scan' = [scan EXCEPT
                  !.pc = "returned",
                  !.task_result =
                      IF "error" \in DOMAIN sim.result THEN sim.result
                      ELSE Strip(sim.result, request.stock_list[1])]
    /\ UNCHANGED <<tradeVars, sim, request, otherVars>>

\* _scan_batch yields the only future and _scan_stocks returns
SymbolCollect ==
    /\ scan.pc = "returned"
    /\ LET batch == CollectResult(EmptyBatch, scan.task_result, request.min_trades)
       IN  /\ scan' = [scan EXCEPT !.pc = "scanned",
                                   !.results = batch.results,
                                   !.successful = batch.successful,
                                   !.failed = batch.failed]
           /\ request' = [request EXCEPT !.scanned = batch.results]
    /\ UNCHANGED <<tradeVars, sim, otherVars>>

NextSymbol ==
    \/ SymbolFetch
    \/ SimStart
    \/ ExecBar
    \/ EndOfPeriod
    \/ SimReturn
    \/ SymbolStrip
    \/ SymbolCollect
    \/ ScanFilter
    \/ ScanSort
    \/ ScanReturn

SpecSymbol == InitSymbol /\ [][NextSymbol]_vars

-----------------------------------------------------------------------------
(* C23 *)

\* C23: the summary's total_trades of a successful simulation is the
\* number of entries of its trade log, BUY and SELL both counted; the
\* result the scan keeps for the symbol carries the symbol, the summary and
\* the statistics and no trade log; a scan of one fetchable symbol with
\* min_trades = 0 and no exclude rules returns exactly one result.
C23_TradeCountAndOneResult ==
    /\ (sim.pc = "done" /\ "error" \notin DOMAIN sim.result) =>
          /\ sim.result.trades = et.trades
          /\ sim.result.trading_summary.total_trades = Len(et.trades)
          /\ Len(et.trades) =
                Count(et.trades, "BUY", Len(et.trades))
                  + Count(et.trades, "SELL", Len(et.trades))
    /\ (scan.pc \in {"returned", "scanned"} /\ "error" \notin DOMAIN scan.task_result) =>
          /\ DOMAIN scan.task_result = {"stock", "trading_summary", "statistics"}
          /\ scan.task_result.stock = Upper(request.stock_list[1])
          /\ scan.task_result.trading_summary = sim.result.trading_summary
          /\ scan.task_result.statistics = sim.result.statistics
    /\ (scan.pc = "done" /\ request.min_trades = 0 /\ Len(df) >= 50) =>
          /\ "error" \notin DOMAIN scan.out
          /\ Len(scan.out.top_results) = 1
          /\ scan.out.top_results[1].trading_summary.total_trades = Len(et.trades)
          /\ "trades" \notin DOMAIN scan.out.top_results[1]
          /\ scan.out.scan_summary.successful_scans = 1
          /\ scan.out.scan_summary.failed_scans = 0

\* a scan with min_trades = 0 returned the one symbol, whose simulation
\* logged a BUY and a SELL
C23_Witness ==
    /\ scan.pc = "done"
    /\ request.min_trades = 0
    /\ Len(et.trades) = 2
    /\ Len(scan.out.top_results) = 1
    /\ scan.out.top_results[1].trading_summary.total_trades = 2

\* the same with a simulation that traded nothing
C23_WitnessNoTrades ==
    /\ scan.pc = "done"
    /\ request.min_trades = 0
    /\ Len(df) >= 50
    /\ Len(et.trades) = 0
    /\ Len(scan.out.top_results) = 1

-----------------------------------------------------------------------------
(* _calculate_statistics on trade logs of its own: simulate is about to
   return with a log of up to MaxSells round trips *)

MaxSells == 3

\* logged profit_loss values (whole cents): a loss, break-even, two gains
ProfitLossPool ==
    {0 - (12345 * (MoneyScale \div 100)), 0,
     5000 * (MoneyScale \div 100), 25002 * (MoneyScale \div 100)}

\* hold_days of a round trip: closed on the day it was opened, or later
HoldDaysPool == {0, 3}

\* the log of Len(pls) round trips; trip j opens on day 4 * (j - 1)
RoundTrips(pls, holds) ==
    [j \in 1..(2 * Len(pls)) |->
        LET trip == (j + 1) \div 2
            opened == 4 * (trip - 1)
        IN  IF j % 2 = 1
              THEN [ type |-> "BUY", execution_date |-> [ymd |-> opened] ]
              ELSE [ type |-> "SELL",
                     execution_date |-> [ymd |-> opened + holds[trip]],
                     profit_loss |-> pls[trip],
                     hold_days |-> holds[trip] ]]

InitStats ==
    /\ df = MkSeries(MinSimBars, 0)
    /\ buy_signals = [j \in 1..MinSimBars |-> 0]
    /\ sell_signals = [j \in 1..MinSimBars |-> 0]
    /\ accepted = << >>
    /\ \E k \in 0..MaxSells :
         \E pls \in [1..k -> ProfitLossPool], holds \in [1..k -> HoldDaysPool] :
            et = [InitFrame EXCEPT
                    !.pc = "returned",
                    !.i = MinSimBars,
                    !.trades = RoundTrips(pls, holds),
                    !.balance = initial_balance + Sum(pls)]
    /\ \E bi \in Indicators, si \in Indicators :
         sim = [pc |-> "trading", buy_indicator |-> bi, sell_indicator |-> si,
                result |-> NoResult]
    /\ request = NoRequest
    /\ scan = NoScan
    /\ settings = DefaultSettings
    /\ scanner = NewMarketScanner(settings)
    /\ detector = NoDetector

NextStats == SimReturn

SpecStats == InitStats /\ [][NextStats]_vars

-----------------------------------------------------------------------------
(* C24 *)

\* positions of the log that hold a SELL
SellsOf(log) == {j \in 1..Len(log) : log[j].type = "SELL"}

RECURSIVE SumOver(_, _, _)
SumOver(log, S, field) ==
    IF S = {} THEN 0
    ELSE LET j == CHOOSE x \in S : TRUE
         IN  log[j][field] + SumOver(log, S \ {j}, field)

\* C24: statistics range over SELL trades only: success_rate is the share
\* of SELL trades with profit/loss > 0; profit figures range over those
\* with profit/loss > 0, loss figures over those with profit/loss < 0 (a
\* break-even trade is in neither but counts in the denominator);
\* avg_hold_days averages the trades with hold_days > 0; no trades give the
\* all-zero record and no error.
C24_StatisticsOverSells ==
    (sim.pc = "done" /\ ~Insufficient(df)) =>
        LET log == et.trades
            st == sim.result.statistics
            sells == SellsOf(log)
            wins == {j \in sells : log[j].profit_loss > 0}
            lost == {j \in sells : log[j].profit_loss < 0}
            held == {j \in sells : log[j].hold_days > 0}
            zero == [f \in DOMAIN st |-> 0]
        IN  /\ "error" \notin DOMAIN sim.result
            /\ DOMAIN st = {"success_rate", "avg_trade_frequency", "total_profit",
                            "total_loss", "avg_profit", "avg_loss", "max_profit",
                            "max_loss", "avg_hold_days"}
            /\ sells = {} => st = zero
            /\ sells # {} =>
                 /\ st.success_rate =
                      DivRound(Cardinality(wins) * 100 * PctScale, Cardinality(sells))
                 /\ st.total_profit = SumOver(log, wins, "profit_loss")
                 /\ st.total_loss = SumOver(log, lost, "profit_loss")
                 /\ wins = {} => st.avg_profit = 0 /\ st.max_profit = 0
                 /\ wins # {} =>
                      /\ st.avg_profit =
                           Round2(DivRound(SumOver(log, wins, "profit_loss"),
                                           Cardinality(wins)))
                      /\ \E j \in wins : st.max_profit = log[j].profit_loss
                      /\ \A j \in wins : st.max_profit >= log[j].profit_loss
                 /\ lost = {} => st.avg_loss = 0 /\ st.max_loss = 0
                 /\ lost # {} =>
                      /\ st.avg_loss =
                           Round2(DivRound(SumOver(log, lost, "profit_loss"),
                                           Cardinality(lost)))
                      /\ \E j \in lost : st.max_loss = log[j].profit_loss
                      /\ \A j \in lost : st.max_loss <= log[j].profit_loss
                 /\ held = {} => st.avg_hold_days = 0
                 /\ held # {} =>
                      st.avg_hold_days =
                          DivRound(SumOver(log, held, "hold_days") * DayScale,
                                   Cardinality(held))

\* statistics of a log with a gain, a break-even trade and a loss, one of
\* them closed on the day it was opened
C24_Witness ==
    /\ sim.pc = "done"
    /\ Cardinality(SellsOf(et.trades)) = 3
    /\ \E a, b, c \in SellsOf(et.trades) :
          /\ et.trades[a].profit_loss > 0
          /\ et.trades[b].profit_loss = 0
          /\ et.trades[c].profit_loss < 0
    /\ \E a, b \in SellsOf(et.trades) :
          et.trades[a].hold_days = 0 /\ et.trades[b].hold_days > 0
    /\ sim.result.statistics.success_rate = DivRound(100 * PctScale, 3)

\* no trades: the all-zero record
C24_WitnessNoTrades ==
    /\ sim.pc = "done"
    /\ ~Insufficient(df)
    /\ Len(et.trades) = 0
    /\ sim.result.statistics = EmptyStatistics

-----------------------------------------------------------------------------
(* TechnicalAnalysis: the arithmetic of calculate_kdj and calculate_macd.
   A frame is a sequence of bars [High, Low, Close], each a price <<p>> in
   units of 1/PriceScale or NaN.  K, D, J and RSV are percentages in units
   of 1/PriceScale; the MACD series are in units of 1/ShareScale. *)

\* series.rolling(window, min_periods=1).min() at position i: the least of
\* the defined values of the window, NaN when it holds none
RollingMin(series, window, i) ==
    LET from == IF i - window + 1 > 1 THEN i - window + 1 ELSE 1
        S == {series[j][1] : j \in {x \in from..i : series[x] # NaN}}
    IN  IF S = {} THEN NaN ELSE <<CHOOSE m \in S : \A y \in S : m <= y>>

\* series.rolling(window, min_periods=1).max() at position i
RollingMax(series, window, i) ==
    LET from == IF i - window + 1 > 1 THEN i - window + 1 ELSE 1
        S == {series[j][1] : j \in {x \in from..i : series[x] # NaN}}
    IN  IF S = {} THEN NaN ELSE <<CHOOSE m \in S : \A y \in S : m >= y>>

\* rsv = ((Close - low_min) / denominator) * 100, a zero denominator
\* replaced by 1
Rsv(frame) ==
    [i \in 1..Len(frame) |->
        LET low_min == RollingMin(Column(frame, "Low"), KPeriod, i)
            high_max == RollingMax(Column(frame, "High"), KPeriod, i)
            close == frame[i].Close
        IN  IF low_min = NaN \/ high_max = NaN \/ close = NaN THEN NaN
            ELSE LET denominator == high_max[1] - low_min[1]
                     replaced == IF denominator = 0 THEN PriceScale
                                 ELSE denominator
                 IN  <<MulDiv(close[1] - low_min[1], 100 * PriceScale, replaced)>>]

\* rsv.first_valid_index() as a position, 0 for None
FirstValid(rsv) ==
    IF \A i \in 1..Len(rsv) : rsv[i] = NaN THEN 0
    ELSE CHOOSE i \in 1..Len(rsv) :
            rsv[i] # NaN /\ \A j \in 1..(i - 1) : rsv[j] = NaN

\* 2/3 * prev + 1/3 * cur
SmoothInHalves(prev, cur) ==
    IF prev = NaN \/ cur = NaN THEN NaN ELSE <<DivRound(prev[1] + cur[1], 2)>>

Smooth(prev, cur) ==
    IF prev = NaN \/ cur = NaN THEN NaN ELSE <<DivRound(2 * prev[1] + cur[1], 3)>>

\* K and D: 0.0 everywhere, 50 at the first valid RSV, the recurrence after
\* it
RECURSIVE KdFrom(_, _, _, _, _)
KdFrom(rsv, first_valid, i, k, d) ==
    IF i > Len(rsv) THEN [k |-> k, d |-> d]
    ELSE IF first_valid = 0 \/ i < first_valid
      THEN KdFrom(rsv, first_valid, i + 1, Append(k, <<0>>), Append(d, <<0>>))
    ELSE IF i = first_valid
      THEN KdFrom(rsv, first_valid, i + 1,
                  Append(k, <<50 * PriceScale>>), Append(d, <<50 * PriceScale>>))
    ELSE LET k_i == Smooth(k[i - 1], rsv[i])
             d_i == Smooth(d[i - 1], k_i)
         IN  KdFrom(rsv, first_valid, i + 1, Append(k, k_i), Append(d, d_i))

\* j_values = 3 * k_values - 2 * d_values
JValues(k, d) ==
    [i \in 1..Len(k) |->
        IF k[i] = NaN \/ d[i] = NaN THEN NaN ELSE <<3 * k[i][1] - 2 * d[i][1]>>]

\* calculate_kdj
KdjOf(frame) ==
    IF Len(frame) = 0 \/ Len(frame) < KPeriod
      THEN [error |-> "Insufficient data for KDJ calculation"]
      ELSE LET rsv == Rsv(frame)
               kd == KdFrom(rsv, FirstValid(rsv), 1, << >>, << >>)
           IN  [k |-> kd.k, d |-> kd.d, j |-> JValues(kd.k, kd.d)]

\* the weights of ewm are kept in units of 1/WeightScale
WeightScale == 100 * 100

\* series.ewm(span=span).mean(): the weighted mean of the values so far,
\* a value i bars back weighing ((span - 1) / (span + 1)) ^ i; NaN until the
\* first defined value, a later NaN adds nothing and repeats the mean
\* (sums of weights are rounded to 1/WeightScale, so means agree with the
\* floating-point ones to about four digits)
RECURSIVE EwmFrom(_, _, _, _, _, _)
EwmFrom(series, span, i, num, den, out) ==
    IF i > Len(series) THEN out
    ELSE LET decayed_num == DivRound(num * (span - 1), span + 1)
             decayed_den == DivRound(den * (span - 1), span + 1)
             new_num == IF series[i] = NaN THEN decayed_num
                        ELSE decayed_num + series[i][1]
             new_den == IF series[i] = NaN THEN decayed_den
                        ELSE decayed_den + WeightScale
             mean == IF new_den = 0 THEN NaN
                     ELSE <<MulDiv(new_num, WeightScale, new_den)>>
         IN  EwmFrom(series, span, i + 1, new_num, new_den, Append(out, mean))

Ewm(series, span) == EwmFrom(series, span, 1, 0, 0, << >>)

\* a - b of two series on the same index
MinusShifted(a, b) ==
    [i \in 1..Len(a) |->
        IF i = 1 \/ a[i] = NaN \/ b[i - 1] = NaN THEN NaN
        ELSE <<a[i][1] - b[i - 1][1]>>]

Minus(a, b) ==
    [i \in 1..Len(a) |->
        IF a[i] = NaN \/ b[i] = NaN THEN NaN ELSE <<a[i][1] - b[i][1]>>]

\* the fast and signal periods of calculate_macd
FastPeriod == 12

SignalPeriod == 9

\* df['Close'] in units of 1/ShareScale
CloseSeries(frame) ==
    [i \in 1..Len(frame) |->
        IF frame[i].Close = NaN THEN NaN
        ELSE <<frame[i].Close[1] * (ShareScale \div PriceScale)>>]

\* calculate_macd
MacdOf(frame) ==
    IF Len(frame) = 0 \/ Len(frame) < SlowPeriod
      THEN [error |-> "Insufficient data for MACD calculation"]
      ELSE LET ema_fast == Ewm(CloseSeries(frame), FastPeriod)
               ema_slow == Ewm(CloseSeries(frame), SlowPeriod)
               macd_line == Minus(ema_fast, ema_slow)
               signal_line == Ewm(macd_line, SignalPeriod)
           IN  [ macd_line |-> macd_line,
                 signal_line |-> signal_line,
                 histogram |-> Minus(macd_line, signal_line) ]

-----------------------------------------------------------------------------
(* The indicators computed from a frame, and the SignalDetector working on
   what was computed *)

\* bars beyond slow_period
FrameSlack == 1

\* most rows without prices at the head of a frame
MaxLead == 2

FrameLens ==
    {0, KPeriod - 1, KPeriod, KPeriod + 1, SlowPeriod - 1}
        \cup (SlowPeriod .. SlowPeriod + FrameSlack)

\* the bar of BasePrices[c]: the day's range reaches a little beyond the
\* open and the close
Priced(c) ==
    LET p == BasePrices[c]
        top == IF p.Open > p.Close THEN p.Open ELSE p.Close
        bottom == IF p.Open < p.Close THEN p.Open ELSE p.Close
    IN  [High |-> <<top + 55>>, Low |-> <<bottom - 45>>, Close |-> <<p.Close>>]

Unpriced == [High |-> NaN, Low |-> NaN, Close |-> NaN]

\* n bars from offset k of the price cycle; the first `lead` rows hold no
\* prices, and row `gap` (if any) has no close
Frame(n, k, lead, gap) ==
    [j \in 1..n |->
        IF j <= lead THEN Unpriced
        ELSE LET b == Priced(((j - 1 + k) % Len(BasePrices)) + 1)
             IN  IF j = gap THEN [b EXCEPT !.Close = NaN] ELSE b]

\* a bar that did not trade away from one price
Flat(p) == [High |-> <<p>>, Low |-> <<p>>, Close |-> <<p>>]

\* n bars from offset k of the price cycle whose first `still` bars are flat
\* at the first close
StillFrame(n, k, still) ==
    [j \in 1..n |->
        IF j <= still THEN Flat(BasePrices[k + 1].Close)
        ELSE Priced(((j - 1 + k) % Len(BasePrices)) + 1)]

Frames ==
    { Frame(n, k, lead, gap) :
        n \in FrameLens, k \in 0..(NumSeries - 1),
        lead \in 0..MaxLead, gap \in {0, MaxLead + 2} }
      \cup { [j \in 1..n |-> Unpriced] : n \in FrameLens }
      \cup { StillFrame(n, k, MaxLead) : n \in FrameLens, k \in 0..(NumSeries - 1) }

InitIndicators ==
    /\ df = << >>
    /\ buy_signals = << >>
    /\ sell_signals = << >>
    /\ et = [InitFrame EXCEPT !.pc = "idle"]
    /\ accepted = << >>
    /\ sim = [pc |-> "none", buy_indicator |-> "macd", sell_indicator |-> "macd",
              result |-> NoResult]
    /\ request = NoRequest
    /\ scan = [pc |-> "none"]
    /\ settings = DefaultSettings
    /\ scanner = NewMarketScanner(settings)
    /\ \E fr \in Frames, bi \in DetectorIndicators, si \in DetectorIndicators,
          th \in DetectorThresholds :
            detector = [ pc |-> "frame", frame |-> fr, bars |-> Len(fr),
                         macd |-> NoResult, kdj |-> NoResult,
                         histogram |-> << >>, k |-> << >>, d |-> << >>,
                         buy_indicator |-> bi, sell_indicator |-> si,
                         buy_threshold |-> th[1], sell_threshold |-> th[2],
                         buy_signals |-> << >>, sell_signals |-> << >>,
                         out |-> NoSignal ]

\* calculate_macd(df) and calculate_kdj(df), the first step of
\* generate_signals and of get_current_signal
DetectorCalculate ==
    /\ detector.pc = "frame"
    /\ LET macd_result == MacdOf(detector.frame)
           kdj_result == KdjOf(detector.frame)
       IN  detector' =
             [detector EXCEPT
                !.pc = "entry",
                !.macd = macd_result,
                !.kdj = kdj_result,
                !.histogram = IF "error" \in DOMAIN macd_result THEN << >>
                              ELSE macd_result.histogram,
                !.k = IF "error" \in DOMAIN kdj_result THEN << >> ELSE kdj_result.k,
                !.d = IF "error" \in DOMAIN kdj_result THEN << >> ELSE kdj_result.d]
    /\ UNCHANGED <<tradeVars, sim, scanVars, settings, scanner>>

NextIndicators ==
    \/ DetectorCalculate
    \/ DetectorGenerate
    \/ DetectorCurrent

SpecIndicators == InitIndicators /\ [][NextIndicators]_vars

-----------------------------------------------------------------------------
(* C25 *)

\* the RSV of bar i is defined: the bar has a close and the window up to it
\* holds a low and a high
RsvDefined(frame, i) ==
    /\ frame[i].Close # NaN
    /\ \E j \in 1..i : j > i - KPeriod /\ frame[j].Low # NaN
    /\ \E j \in 1..i : j > i - KPeriod /\ frame[j].High # NaN

\* the bars before the first bar whose RSV is defined (all bars if none is)
WarmUp(frame) ==
    {i \in 1..Len(frame) : \A j \in 1..i : ~RsvDefined(frame, j)}

KdjComputed == detector.pc # "frame" /\ "error" \notin DOMAIN detector.kdj

\* J = 3K - 2D from the first bar whose RSV is defined on
C25_JFromFirstRsv ==
    KdjComputed =>
        \A i \in (1..detector.bars) \ WarmUp(detector.frame) :
            LET k == detector.kdj.k[i]
                d == detector.kdj.d[i]
                j == detector.kdj.j[i]
            IN  IF k = NaN \/ d = NaN THEN j = NaN
                ELSE j # NaN /\ j[1] = 3 * k[1] - 2 * d[1]

\* C25: J[i] = 3*K[i] - 2*D[i] for every bar at or after the first bar whose
\* RSV is defined; K, D and J are undefined for every bar before it, so
\* such a bar triggers no KDJ signal.
C25_KdjUndefinedBeforeFirstRsv ==
    /\ C25_JFromFirstRsv
    /\ KdjComputed =>
         \A i \in WarmUp(detector.frame) :
            /\ detector.kdj.k[i] = NaN
            /\ detector.kdj.d[i] = NaN
            /\ detector.kdj.j[i] = NaN
    /\ (KdjComputed /\ detector.pc = "generated") =>
         \A i \in WarmUp(detector.frame) :
            /\ Lower(detector.buy_indicator) = KdjName => detector.buy_signals[i] = 0
            /\ Lower(detector.sell_indicator) = KdjName => detector.sell_signals[i] = 0

-----------------------------------------------------------------------------
(* C26 *)

MacdComputed == detector.pc # "frame" /\ "error" \notin DOMAIN detector.macd

\* C26: in the MACD result histogram[i] = macd_line[i] - signal_line[i] for
\* every bar i, and the three series are as long as the bar series.
C26_HistogramIsDifference ==
    MacdComputed =>
        LET m == detector.macd
        IN  /\ Len(m.macd_line) = Len(detector.frame)
            /\ Len(m.signal_line) = Len(detector.frame)
            /\ Len(m.histogram) = Len(detector.frame)
            /\ \A i \in 1..Len(detector.frame) :
                 IF m.macd_line[i] = NaN \/ m.signal_line[i] = NaN
                   THEN m.histogram[i] = NaN
                   ELSE /\ m.histogram[i] # NaN
                        /\ m.histogram[i][1] =
                             m.macd_line[i][1] - m.signal_line[i][1]

\* a MACD result whose last histogram value is defined and not zero, the
\* MACD and signal lines differing there
C26_Witness ==
    /\ MacdComputed
    /\ detector.bars >= SlowPeriod
    /\ detector.macd.histogram[detector.bars] # NaN
    /\ detector.macd.histogram[detector.bars] # <<0>>
    /\ detector.macd.signal_line[detector.bars] # <<0>>

-----------------------------------------------------------------------------
(* C27 *)

Calculated == detector.pc # "frame"

\* C27: calculate_macd returns only an error below 26 bars and
\* calculate_kdj only an error below 9 bars; otherwise each returns all of
\* its series, as long as the frame; generate_signals turns an indicator
\* error into no signal on any bar for that indicator.
C27_ErrorOrCompleteResult ==
    /\ Calculated =>
         /\ IF detector.bars < 26
              THEN DOMAIN detector.macd = {"error"}
              ELSE /\ DOMAIN detector.macd = {"macd_line", "signal_line", "histogram"}
                   /\ \A f \in DOMAIN detector.macd :
                        Len(detector.macd[f]) = detector.bars
         /\ IF detector.bars < 9
              THEN DOMAIN detector.kdj = {"error"}
              ELSE /\ DOMAIN detector.kdj = {"k", "d", "j"}
                   /\ \A f \in DOMAIN detector.kdj :
                        Len(detector.kdj[f]) = detector.bars
    /\ detector.pc = "generated" =>
         /\ Len(detector.buy_signals) = detector.bars
         /\ Len(detector.sell_signals) = detector.bars
         /\ (detector.bars < 26 /\ Lower(detector.buy_indicator) = MacdName) =>
                \A i \in 1..detector.bars : detector.buy_signals[i] = 0
         /\ (detector.bars < 26 /\ Lower(detector.sell_indicator) = MacdName) =>
                \A i \in 1..detector.bars : detector.sell_signals[i] = 0
         /\ (detector.bars < 9 /\ Lower(detector.buy_indicator) = KdjName) =>
                \A i \in 1..detector.bars : detector.buy_signals[i] = 0
         /\ (detector.bars < 9 /\ Lower(detector.sell_indicator) = KdjName) =>
                \A i \in 1..detector.bars : detector.sell_signals[i] = 0

\* signals generated with KDJ on 8 priced bars: both calculations failed
\* and no bar is flagged
C27_Witness ==
    /\ detector.pc = "generated"
    /\ detector.bars = 8
    /\ detector.frame[1].Close # NaN
    /\ Lower(detector.buy_indicator) = KdjName
    /\ "error" \in DOMAIN detector.kdj
    /\ "error" \in DOMAIN detector.macd
    /\ \A i \in 1..detector.bars : detector.buy_signals[i] = 0

\* 25 bars: KDJ complete, MACD failed
C27_WitnessMacdOnly ==
    /\ detector.pc = "generated"
    /\ detector.bars = 25
    /\ "error" \in DOMAIN detector.macd
    /\ Len(detector.kdj.k) = 25
    /\ Lower(detector.sell_indicator) = MacdName

-----------------------------------------------------------------------------
(* C28 *)

\* the accepted results in the order their symbols were submitted, which
\* is the order they are collected in when the tasks finish in turn
InSubmissionOrder ==
    LET stocks == scan.stocks_to_scan
        kept == SelectSeq([k \in 1..Len(stocks) |-> k],
                          LAMBDA k : \E m \in 1..Len(request.scanned) :
                                        request.scanned[m].stock = Upper(stocks[k]))
    IN  [n \in 1..Len(kept) |->
            request.scanned[CHOOSE m \in 1..Len(request.scanned) :
                                request.scanned[m].stock = Upper(stocks[kept[n]])]]

\* what scan returns when the tasks finish in submission order
ReturnedInSubmissionOrder ==
    LET filtered == IF Len(request.exclude_rules) > 0
                      THEN ApplyExcludeRules(InSubmissionOrder, request.exclude_rules)
                      ELSE InSubmissionOrder
    IN  Truncate(ApplySorting(filtered, request.sort_rules), request.top_n)

ScanSucceeded == scan.pc = "done" /\ "error" \notin DOMAIN scan.out

\* no two accepted results have the same sort key
NoTies ==
    LET rules == IF Len(request.sort_rules) = 0 THEN DefaultSortRules
                 ELSE request.sort_rules
    IN  \A a, b \in 1..Len(request.scanned) :
            a # b => GetSortKey(request.scanned[a], rules)
                        # GetSortKey(request.scanned[b], rules)

\* with distinct sort keys the returned list does not depend on the order
\* in which the tasks completed
C28_OrderFixedWithoutTies ==
    (ScanSucceeded /\ NoTies) => scan.out.top_results = ReturnedInSubmissionOrder

\* C28: for given per-symbol outcomes the list scan returns (its members
\* and their order) is the same for every order in which the tasks of a
\* batch complete, also with equal sort keys and with a top_n cut: it is the
\* list returned when the tasks complete in submission order.
C28_OrderIndependentOfCompletion ==
    ScanSucceeded => scan.out.top_results = ReturnedInSubmissionOrder


-----------------------------------------------------------------------------
(* The order of the batches of one scan *)

\* what _scan_stocks did so far: the batches it opened and its pauses
StocksTrace == SelectSeq(scan.trace, LAMBDA e : e.op # "resolve")

\* number of slices `range(0, len(stocks), self.batch_size)` yields
SliceCount(n, size) == (n + size - 1) \div size

\* a task of the running batch was taken by a worker
SomeTaskStarted ==
    \E j \in 1..Len(scan.tasks) : scan.tasks[j].state # "queued"

\* _scan_stocks has returned to scan
StocksScanned == scan.pc \notin {"entry", "scan_stocks", "batch"} /\ Len(StocksTrace) > 0

\* the events alternate batch, pause, batch, ..., the k-th batch is the
\* k-th slice of at most batch_size symbols, tasks exist only while their
\* batch is the last event, and a returned _scan_stocks ends with a batch
BatchesInTurn ==
    LET stocks == scan.stocks_to_scan
        size == scanner.batch_size
        tr == StocksTrace
    IN  Batched(stocks, scanner) =>
          /\ \A k \in 1..Len(tr) :
                IF k % 2 = 1
                  THEN /\ tr[k].op = "batch"
                       /\ tr[k].start = ((k - 1) \div 2) * size
                       /\ tr[k].size >= 1
                       /\ tr[k].size <= size
                       /\ tr[k].size = size \/ tr[k].start + tr[k].size = Len(stocks)
                  ELSE tr[k] = Sleep(5 * Second)
          /\ Len(scan.tasks) > 0 =>
                /\ scan.pc = "batch"
                /\ tr[Len(tr)].op = "batch"
                /\ Len(scan.tasks) = tr[Len(tr)].size
          /\ (Len(tr) > 0 /\ tr[Len(tr)].op = "sleep") =>
                /\ scan.pc = "scan_stocks"
                /\ scan.i < Len(stocks)
          /\ StocksScanned =>
                /\ tr[Len(tr)].op = "batch"
                /\ Len(BatchesOf(tr)) = SliceCount(Len(stocks), size)
                /\ Len(tr) = 2 * SliceCount(Len(stocks), size) - 1

\* a step that pauses leaves a batch whose futures were all yielded, and a
\* step that opens a later batch follows the pause
BatchAfterBatch ==
    LET tr == StocksTrace
        after == SelectSeq(scan'.trace, LAMBDA e : e.op # "resolve")
    IN  /\ (Len(after) > Len(tr) /\ after[Len(after)].op = "sleep") =>
              /\ Len(scan.tasks) > 0
              /\ \A j \in 1..Len(scan.tasks) : scan.tasks[j].state = "collected"
              /\ scan'.tasks = << >>
        /\ (Len(after) > Len(tr) /\ after[Len(after)].op = "batch" /\ Len(tr) > 0) =>
              /\ tr[Len(tr)] = Sleep(5 * Second)
              /\ scan.tasks = << >>
              /\ \A j \in 1..Len(scan'.tasks) : scan'.tasks[j].state = "queued"

\* C29: with more candidates than batch_size the symbols are scanned in
\* consecutive slices of at most batch_size, one slice after another: a
\* batch is opened only after every task of the batch before it has
\* completed and the 5-second pause has passed, there is one pause between
\* every two consecutive batches and none after the last.
C29_BatchesOneAfterAnother == []BatchesInTurn /\ [][BatchAfterBatch]_vars

\* after a batch of two symbols and one pause, the second batch has a task
\* at work
C29_Witness ==
    /\ Batched(scan.stocks_to_scan, scanner)
    /\ Len(StocksTrace) = 3
    /\ StocksTrace[1].size = 2
    /\ StocksTrace[2] = Sleep(5 * Second)
    /\ SomeTaskStarted

\* a scan in two batches returned with one pause in its trace
C29_WitnessReturned ==
    /\ Batched(scan.stocks_to_scan, scanner)
    /\ scan.pc = "done"
    /\ Len(BatchesOf(scan.trace)) = 2
    /\ Len(StocksTrace) = 3


-----------------------------------------------------------------------------
(* The tasks of one batch *)

\* tasks of the running batch that hold a worker thread: between two
\* attempts, or in a fetch that does not return
Executing ==
    {j \in 1..Len(scan.tasks) : scan.tasks[j].state \in {"running", "hung"}}

\* tasks of the running batch no worker has taken yet
Queued == {j \in 1..Len(scan.tasks) : scan.tasks[j].state = "queued"}

\* the slice _scan_batch was called with
CurrentBatch ==
    LET batches == BatchesOf(scan.trace)
        last == batches[Len(batches)]
    IN  SubSeq(scan.stocks_to_scan, last.start + 1, last.start + last.size)

\* C30: in a batch every symbol is submitted as exactly one task (the j-th
\* task scans the j-th symbol of the slice and there are as many tasks as
\* symbols), and at no moment do more tasks execute than the selected tier
\* has workers.
C30_OneTaskPerSymbolWithinWorkers ==
    scan.pc = "batch" =>
        /\ Len(scan.tasks) = Len(CurrentBatch)
        /\ \A j \in 1..Len(scan.tasks) : scan.tasks[j].symbol = CurrentBatch[j]
        /\ scanner.max_workers
              = AdjustRateLimiting(NewMarketScanner(settings),
                                   Len(scan.stocks_to_scan), settings).max_workers
        /\ Cardinality(Executing) <= scanner.max_workers

\* every worker is taken while a submitted symbol still waits
C30_Witness ==
    /\ scan.pc = "batch"
    /\ Cardinality(Executing) = scanner.max_workers
    /\ Queued # {}

\* three symbols of one batch at work at once under twenty workers
C30_WitnessAllAtWork ==
    /\ scan.pc = "batch"
    /\ Cardinality(Executing) = 3
    /\ scanner.max_workers = 20


-----------------------------------------------------------------------------
(* The arithmetic of the fills *)

\* the step appended an entry of the given type to the trade log
Logged(ty) ==
    /\ Len(et'.trades) = Len(et.trades) + 1
    /\ et'.trades[Len(et'.trades)].type = ty

\* the price the SELL of this step is made at: the bar's open for a fill of
\* the loop, the last close for the close at the end of the period
SellPrice ==
    IF et.pc = "close" THEN Close(df, Len(df) - 1) ELSE Open(df, et.i)

\* shares * buy price + the commission paid on the BUY (balance * rate; the
\* balance has not changed since)
CostBasisWithCommissionPaid ==
    ValueOf(et.shares, et.buy_price) + Times(et.balance, commission_rate)

\* the fills of one step, with the given cost basis for a SELL
FillArithmetic(cost_basis) ==
    /\ Logged("BUY") =>
          LET commission == Times(et.balance, commission_rate)
              t == et'.trades[Len(et'.trades)]
          IN  /\ et'.shares = SharesFor(et.balance - commission, Open(df, et.i))
              /\ et'.buy_price = Open(df, et.i)
              /\ t.commission = Round2(commission)
              /\ t.shares = Round4(et'.shares)
              /\ t.balance_after = Round2(et.balance - commission)
    /\ Logged("SELL") =>
          LET sell_value == ValueOf(et.shares, SellPrice)
              commission == Times(sell_value, commission_rate)
              t == et'.trades[Len(et'.trades)]
          IN  /\ et'.balance = sell_value - commission
              /\ t.commission = Round2(commission)
              /\ t.proceeds = Round2(sell_value)
              /\ t.balance_after = Round2(et'.balance)
              /\ et'.profit_loss = et'.balance - cost_basis
              /\ t.profit_loss = Round2(et'.profit_loss)
              /\ et.pc = "loop" => et'.shares = 0
    /\ ~Logged("SELL") => et'.balance = et.balance

\* the fills as the code makes them: the cost basis of a SELL takes the
\* commission of the BUY from the log, rounded to cents
C31_FillArithmeticWithLoggedCommission ==
    [][FillArithmetic(ValueOf(et.shares, et.buy_price)
                        + et.trades[Len(et.trades)].commission)]_vars

\* C31: a BUY fill takes commission = balance * rate and buys
\* (balance - commission) / open price shares; a SELL fill takes commission
\* = shares * price * rate, sets the balance to shares * price - commission,
\* has profit/loss = that amount - (shares * buy price + buy commission) and
\* (in the loop) sets the shares to 0; the balance changes on SELL only.
C31_FillArithmetic == [][FillArithmetic(CostBasisWithCommissionPaid)]_vars

\* a second BUY whose commission is not a whole number of cents was sold
C31_WitnessFractionalCommission ==
    /\ Len(et.trades) = 4
    /\ et.trades[4].type = "SELL"
    /\ et.trades[3].commission # Times(et.trades[2].net_proceeds, commission_rate)


-----------------------------------------------------------------------------
(* The KDJ recurrence *)

\* the bars of the trailing window of bar t: up to KPeriod bars, fewer at
\* the start
Window(t) == {j \in 1..t : j > t - 9}

\* the lows and the highs that the window of bar t holds
WindowLows(frame, t) == {frame[j].Low[1] : j \in {x \in Window(t) : frame[x].Low # NaN}}

WindowHighs(frame, t) == {frame[j].High[1] : j \in {x \in Window(t) : frame[x].High # NaN}}

\* the first bar whose RSV is defined, 0 if there is none
FirstRsvBar(frame) ==
    IF \A i \in 1..Len(frame) : ~RsvDefined(frame, i) THEN 0
    ELSE CHOOSE i \in 1..Len(frame) :
            RsvDefined(frame, i) /\ \A j \in 1..(i - 1) : ~RsvDefined(frame, j)

\* the values x that are RSV_t to the nearest unit: RSV_t is
\* 100 * (close - lowest low) / (highest high - lowest low), the denominator
\* 1 when the two are equal
RsvValues(frame, t) ==
    LET lowest == CHOOSE m \in WindowLows(frame, t) : \A y \in WindowLows(frame, t) : m <= y
        highest == CHOOSE m \in WindowHighs(frame, t) : \A y \in WindowHighs(frame, t) : m >= y
        denominator == IF highest = lowest THEN PriceScale ELSE highest - lowest
        numerator == (frame[t].Close[1] - lowest) * 100 * PriceScale
        below == numerator \div denominator
    IN  {x \in {below, below + 1} :
            /\ 2 * (numerator - x * denominator) <= denominator
            /\ 2 * (x * denominator - numerator) <= denominator}

\* y = (2/3) * prev + (1/3) * cur to the nearest unit
IsSmoothed(y, prev, cur) ==
    /\ 2 * (3 * y - (2 * prev + cur)) <= 3
    /\ 2 * ((2 * prev + cur) - 3 * y) <= 3

\* C32: K = D = 50 at the first bar whose RSV is defined, whatever the RSV
\* of that bar; at every later bar (with K and D of the bar before and the
\* bar's RSV defined) K_t = (2/3) K_{t-1} + (1/3) RSV_t and
\* D_t = (2/3) D_{t-1} + (1/3) K_t, RSV_t taken over the window of up to 9
\* bars with a zero denominator replaced by 1.
C32_KdjRecurrence ==
    KdjComputed =>
        LET frame == detector.frame
            k == detector.kdj.k
            d == detector.kdj.d
            first == FirstRsvBar(frame)
        IN  first > 0 =>
              /\ k[first] = <<50 * PriceScale>>
              /\ d[first] = <<50 * PriceScale>>
              /\ \A t \in (first + 1)..Len(frame) :
                    (RsvDefined(frame, t) /\ k[t - 1] # NaN /\ d[t - 1] # NaN) =>
                       /\ k[t] # NaN
                       /\ d[t] # NaN
                       /\ \E x \in RsvValues(frame, t) :
                             IsSmoothed(k[t][1], k[t - 1][1], x)
                       /\ IsSmoothed(d[t][1], d[t - 1][1], k[t][1])

\* two flat bars first: K = 50 at bar 1, and at bar 2 the denominator is
\* replaced, RSV is 0 and K falls to 33.333
C32_Witness ==
    /\ KdjComputed
    /\ detector.bars >= 9
    /\ detector.frame[1].High = detector.frame[1].Low
    /\ detector.frame[2].High = detector.frame[1].Low
    /\ detector.kdj.k[1] = <<50 * PriceScale>>
    /\ detector.kdj.k[2] = <<33333>>
    /\ detector.kdj.d[2] = <<44444>>

\* nine priced bars: the last K comes from eight steps of the recurrence
C32_WitnessFullWindow ==
    /\ KdjComputed
    /\ detector.bars = 10
    /\ FirstRsvBar(detector.frame) = 1
    /\ detector.kdj.k[10] # NaN
    /\ detector.kdj.k[10] # <<50 * PriceScale>>


-----------------------------------------------------------------------------
(* Undefined bars in the KDJ recurrence *)

\* bar t has a close, a high and a low
BarDefined(frame, t) ==
    frame[t].Close # NaN /\ frame[t].High # NaN /\ frame[t].Low # NaN

\* what the code does: K and D are defined at bar t, at or after the first
\* bar whose RSV is defined, exactly when the RSV of every bar from that
\* first bar to t is defined
C33_UndefinedFromFirstGapOn ==
    KdjComputed =>
        LET frame == detector.frame
            first == FirstRsvBar(frame)
        IN  first > 0 =>
              \A t \in first..Len(frame) :
                 LET whole == \A m \in (first + 1)..t : RsvDefined(frame, m)
                 IN  /\ detector.kdj.k[t] # NaN <=> whole
                     /\ detector.kdj.d[t] # NaN <=> whole

\* C33: K and D are defined at every bar after the first defined bar whose
\* close, high and low are defined, also when an earlier bar had an
\* undefined value.
C33_GapDoesNotSpread ==
    KdjComputed =>
        LET frame == detector.frame
            first == FirstRsvBar(frame)
        IN  first > 0 =>
              \A t \in (first + 1)..Len(frame) :
                 BarDefined(frame, t) =>
                    /\ detector.kdj.k[t] # NaN
                    /\ detector.kdj.d[t] # NaN

\* a frame whose fourth bar has no close, after three priced bars
C33_WitnessGap ==
    /\ KdjComputed
    /\ FirstRsvBar(detector.frame) = 1
    /\ detector.frame[4].Close = NaN
    /\ BarDefined(detector.frame, detector.bars)
    /\ detector.kdj.k[3] # NaN
    /\ detector.kdj.k[detector.bars] = NaN


-----------------------------------------------------------------------------
(* The four states of the trade loop *)

\* the states the locals are in, by name
StatesOf(f) ==
    { name \in {"FLAT", "PENDING_BUY", "LONG", "PENDING_SELL"} :
        \/ name = "FLAT" /\ ~f.position_open /\ ~f.pending_buy /\ ~f.pending_sell
        \/ name = "PENDING_BUY" /\ ~f.position_open /\ f.pending_buy /\ ~f.pending_sell
        \/ name = "LONG" /\ f.position_open /\ ~f.pending_buy /\ ~f.pending_sell
        \/ name = "PENDING_SELL" /\ f.position_open /\ ~f.pending_buy /\ f.pending_sell }

\* C34: before and after every pass of the bar loop, and on return, the
\* locals are in exactly one of FLAT, PENDING_BUY, LONG, PENDING_SELL:
\* never both orders pending, a pending buy only without a position, a
\* pending sell only with one, and shares > 0 only with a position.
C34_ExactlyOneState ==
    /\ Cardinality(StatesOf(et)) = 1
    /\ ~(et.pending_buy /\ et.pending_sell)
    /\ et.pending_buy => ~et.position_open
    /\ et.pending_sell => et.position_open
    /\ et.shares > 0 => et.position_open

\* flat again after a round trip, with no shares left, and a new buy pending
C34_Witness ==
    /\ StatesOf(et) = {"PENDING_BUY"}
    /\ Len(et.trades) = 2
    /\ et.shares = 0

\* in the loop with a sell pending on the position of the first BUY
C34_WitnessPendingSell ==
    /\ StatesOf(et) = {"PENDING_SELL"}
    /\ et.pc = "loop"
    /\ Len(et.trades) = 1
    /\ et.shares > 0


-----------------------------------------------------------------------------
(* The shape of the trade log *)

\* simulate returned a result, not the error
Simulated50 == sim.pc = "done" /\ "error" \notin DOMAIN sim.result

\* BUY at the odd places of the log, SELL at the even ones; a returned log
\* has an even length, and so has the total_trades simulate reports
AlternatingLog ==
    /\ \A j \in 1..Len(et.trades) :
          et.trades[j].type = IF j % 2 = 1 THEN "BUY" ELSE "SELL"
    /\ et.pc = "returned" =>
          /\ Len(et.trades) % 2 = 0
          /\ Count(et.trades, "BUY", Len(et.trades))
                = Count(et.trades, "SELL", Len(et.trades))
          /\ Len(et.trades) > 0 => et.trades[Len(et.trades)].type = "SELL"
    /\ Simulated50 =>
          /\ sim.result.trading_summary.total_trades = Len(et.trades)
          /\ sim.result.trading_summary.total_trades % 2 = 0

\* a step that logs a SELL finds the BUY of the open position last in the log
SellFollowsItsBuy ==
    Logged("SELL") =>
        /\ Len(et.trades) > 0
        /\ LET last == et.trades[Len(et.trades)]
           IN  /\ last.type = "BUY"
               /\ last.execution_date = FormatDate(et.buy_date)
               /\ last.execution_price = Round2P(et.buy_price)
               /\ last.shares = Round4(et.shares)

\* C35: the trade log alternates BUY, SELL, BUY, SELL from a BUY on, and the
\* returned log ends with a SELL: as many SELL as BUY entries, total_trades
\* even; whenever a SELL is computed the last entry of the log is the BUY
\* that opened the position.
C35_LogAlternates == []AlternatingLog /\ [][SellFollowsItsBuy]_vars

\* simulate returned a log that ends with the forced close of a position
\* opened by a BUY on the last bar
C35_Witness ==
    /\ Simulated50
    /\ Len(et.trades) >= 4
    /\ HasEndOfPeriodClose(et.trades)
    /\ et.trades[Len(et.trades) - 1].execution_date = FormatDate(Index(df, Len(df) - 1))


-----------------------------------------------------------------------------
(* The distance between fills *)

\* the bar whose date is the given formatted date
BarOf(text) ==
    CHOOSE b \in 0..(Len(df) - 1) : FormatDate(Index(df, b)) = text

\* the fills of the loop are two bars or more apart, and the signal of each
\* was taken after the bar of the fill before it
FillsApart ==
    LET log == LoopTrades(et.trades)
    IN  /\ \A k \in 1..(Len(log) - 1) :
              /\ BarOf(log[k + 1].execution_date) >= BarOf(log[k].execution_date) + 2
              /\ BarOf(log[k + 1].signal_date) >= BarOf(log[k].execution_date) + 1
        /\ \A k \in 1..(Len(et.trades) - 1) :
              et.trades[k + 1].execution_date = et.trades[k].execution_date =>
                  /\ et.trades[k].type = "BUY"
                  /\ et.trades[k + 1].signal_date = EndOfPeriodLabel
                  /\ BarOf(et.trades[k].execution_date) = Len(df) - 1

\* a pass of the loop that fills an order takes no signal
NoSignalOnFillBar ==
    (et.pc = "loop" /\ Len(et'.trades) > Len(et.trades)) =>
        /\ ~et'.pending_buy
        /\ ~et'.pending_sell
        /\ accepted' = accepted

\* C36: a flag on the bar of a fill is never acted on: after a fill at bar i
\* the next signal is accepted at bar i+1 or later and the next fill of the
\* loop is at bar i+2 or later; only the close at the end of the period
\* shares its bar with a fill, a BUY on the last bar.
C36_FillsTwoBarsApart == []FillsApart /\ [][NoSignalOnFillBar]_vars

\* a BUY filled on bar 1, which carries a sell flag, and the SELL filled on
\* bar 3 from the flag of bar 2
C36_Witness ==
    /\ Len(et.trades) >= 2
    /\ Len(df) >= 4
    /\ sell_signals[2] = 1
    /\ sell_signals[3] = 1
    /\ et.trades[1].execution_date = FormatDate(Index(df, 1))
    /\ et.trades[2].signal_date = FormatDate(Index(df, 2))
    /\ et.trades[2].execution_date = FormatDate(Index(df, 3))

\* a BUY filled on the last bar and closed on it at the end of the period
C36_WitnessLastBar ==
    /\ et.pc = "returned"
    /\ Len(et.trades) = 2
    /\ et.trades[1].execution_date = et.trades[2].execution_date


-----------------------------------------------------------------------------
(* The balance and the profit and loss of the log *)

\* |a - b| <= slack
Within(a, b, slack) == a - b <= slack /\ b - a <= slack

\* the balance stays at the initial balance until the first SELL
UntouchedWithoutSell ==
    SellsOf(et.trades) = {} => et.balance = initial_balance

\* what the code does: the profit/loss of a SELL is the change of the
\* balance plus what rounding to cents took off the commission of the BUY
\* (to one unit of the fixed point, from shares * buy price)
C37_ProfitIsBalanceChangeUpToCommissionRounding ==
    /\ []UntouchedWithoutSell
    /\ [][Logged("SELL") =>
             LET commission == Times(et.balance, commission_rate)
             IN  Within(et'.profit_loss,
                        (et'.balance - et.balance) + (commission - Round2(commission)),
                        1)]_vars

\* the returned balance less the initial balance is the sum of the logged
\* profit/loss values, to the half cent each of them was rounded by
SumOfProfitsIsReturn ==
    et.pc = "returned" =>
        LET sells == SellsOf(et.trades)
        IN  Within(2 * SumOver(et.trades, sells, "profit_loss"),
                   2 * (et.balance - initial_balance),
                   Cardinality(sells) * ((MoneyScale \div 100) + 2))

\* C37: the final balance less the initial balance is the sum of the
\* profit/loss of the SELL trades of the log, the cost basis of each SELL
\* being the balance held before its BUY (so that its profit/loss is the
\* change of the balance it makes); with an empty log the final balance is
\* the initial balance.
C37_ProfitsSumToReturn ==
    /\ [](UntouchedWithoutSell /\ SumOfProfitsIsReturn)
    /\ [][Logged("SELL") =>
             Within(et'.profit_loss, et'.balance - et.balance, 1)]_vars


-----------------------------------------------------------------------------
(* generate_signals and get_current_signal called on the same frame: the
   series of SpecSignal on frames around slow_period bars, and one more pair
   of thresholds, the buy threshold above the sell threshold *)

CrossedThresholds == << <<kdj_sell_threshold + 10>>, <<kdj_buy_threshold - 10>> >>

\* histograms whose last MinSignalBars bars vary
RecentHistograms(n) ==
    { WindowSeries(n, <<0>>, n - MinSignalBars, vals) :
        vals \in [1..MinSignalBars -> HistValues] }

InitBoth ==
    /\ df = << >>
    /\ buy_signals = << >>
    /\ sell_signals = << >>
    /\ et = [InitFrame EXCEPT !.pc = "idle"]
    /\ accepted = << >>
    /\ sim = [pc |-> "none", buy_indicator |-> "macd", sell_indicator |-> "macd",
              result |-> NoResult]
    /\ request = NoRequest
    /\ scan = [pc |-> "none"]
    /\ settings = DefaultSettings
    /\ scanner = NewMarketScanner(settings)
    /\ \E n \in (SlowPeriod - 1)..(SlowPeriod + SignalSlack),
          bi \in DetectorIndicators, si \in DetectorIndicators,
          th \in DetectorThresholds \cup {CrossedThresholds} :
        \E h \in (IF n >= SlowPeriod THEN RecentHistograms(n) ELSE {<< >>}),
           k \in KdFamily(n), d \in KdFamily(n) :
            detector = [ pc |-> "entry", bars |-> n,
                         histogram |-> h, k |-> k, d |-> d,
                         buy_indicator |-> bi, sell_indicator |-> si,
                         buy_threshold |-> th[1], sell_threshold |-> th[2],
                         buy_signals |-> << >>, sell_signals |-> << >>,
                         out |-> NoSignal ]

\* get_current_signal called on the frame generate_signals was called on
DetectorCurrentAfterGenerate ==
    /\ detector.pc = "generated"
    /\ detector' = [detector EXCEPT !.pc = "current",
                                    !.out = GetCurrentSignal(detector)]
    /\ UNCHANGED <<tradeVars, sim, scanVars, settings, scanner>>

NextBoth ==
    \/ DetectorGenerate
    \/ DetectorCurrentAfterGenerate

SpecBoth == InitBoth /\ [][NextBoth]_vars

-----------------------------------------------------------------------------
(* Bars that carry both flags *)

\* the thresholds the KDJ rules compare with
BuyThreshold ==
    IF detector.buy_threshold = NaN THEN kdj_buy_threshold ELSE detector.buy_threshold[1]

SellThreshold ==
    IF detector.sell_threshold = NaN THEN kdj_sell_threshold ELSE detector.sell_threshold[1]

BothMacd ==
    Lower(detector.buy_indicator) = MacdName /\ Lower(detector.sell_indicator) = MacdName

BothKdj ==
    Lower(detector.buy_indicator) = KdjName /\ Lower(detector.sell_indicator) = KdjName

\* the bars generate_signals flagged for both a buy and a sell
DoublyFlagged ==
    {i \in 1..Len(detector.buy_signals) :
        detector.buy_signals[i] = 1 /\ detector.sell_signals[i] = 1}

Conflicting ==
    /\ detector.pc = "current"
    /\ detector.out[2].text = "Conflicting signals from buy and sell indicators"

\* C38: with MACD for both buying and selling no bar carries both flags and
\* get_current_signal never answers with the conflicting-signals HOLD; the
\* same with KDJ for both when the buy threshold is at most the sell
\* threshold.
C38_NoConflictWithOneIndicator ==
    (BothMacd \/ (BothKdj /\ BuyThreshold <= SellThreshold)) =>
        /\ DoublyFlagged = {}
        /\ ~Conflicting

\* MACD for both on 26 bars: the last bar is flagged for a buy and the answer
\* is BUY
C38_Witness ==
    /\ BothMacd
    /\ detector.pc = "current"
    /\ detector.bars >= SlowPeriod
    /\ detector.buy_signals[detector.bars] = 1
    /\ detector.out[1] = "BUY"

\* KDJ for both with thresholds 20 and 80: the last bar is flagged for a sell
C38_WitnessKdj ==
    /\ BothKdj
    /\ detector.pc = "current"
    /\ BuyThreshold < SellThreshold
    /\ detector.sell_signals[detector.bars] = 1
    /\ detector.out[1] = "SELL"

\* KDJ for both with the buy threshold above the sell threshold: a conflict
C38_WitnessCrossed ==
    /\ BothKdj
    /\ BuyThreshold > SellThreshold
    /\ DoublyFlagged # {}
    /\ Conflicting


-----------------------------------------------------------------------------
(* The answer of get_current_signal and the flags of the last bar *)

LastBuyFlag == detector.buy_signals[detector.bars]

LastSellFlag == detector.sell_signals[detector.bars]

\* what the last bar's flags say
FlaggedSignal ==
    IF LastBuyFlag = 1 /\ LastSellFlag = 0 THEN SignalType.BUY
    ELSE IF LastSellFlag = 1 /\ LastBuyFlag = 0 THEN SignalType.SELL
    ELSE SignalType.HOLD

\* C39: on a frame of at least slow_period bars get_current_signal agrees
\* with the flags generate_signals gives the last bar: BUY when only the buy
\* flag is 1, SELL when only the sell flag is 1, and HOLD otherwise.
C39_CurrentSignalIsLastFlags ==
    (detector.pc = "current" /\ detector.bars >= SlowPeriod) =>
        detector.out[1] = FlaggedSignal

\* both flags on the last bar of a frame of 26 bars, MACD buying and KDJ
\* selling: the answer is HOLD
C39_Witness ==
    /\ detector.pc = "current"
    /\ detector.bars >= SlowPeriod
    /\ Lower(detector.buy_indicator) = MacdName
    /\ Lower(detector.sell_indicator) = KdjName
    /\ LastBuyFlag = 1
    /\ LastSellFlag = 1
    /\ detector.out[1] = SignalType.HOLD

\* only the sell flag on the last bar: SELL
C39_WitnessSell ==
    /\ detector.pc = "current"
    /\ detector.bars >= SlowPeriod
    /\ LastBuyFlag = 0
    /\ LastSellFlag = 1
    /\ detector.out[1] = SignalType.SELL

\* below slow_period bars generate_signals still flags the last bar by KDJ
\* while get_current_signal answers HOLD
C39_WitnessShortFrame ==
    /\ detector.pc = "current"
    /\ detector.bars = SlowPeriod - 1
    /\ LastBuyFlag = 1
    /\ LastSellFlag = 0
    /\ detector.out[1] = SignalType.HOLD


-----------------------------------------------------------------------------
(* Successive scans on the module-level MarketScanner instance, rejected
   scans included *)

\* scans one instance serves in a run
MaxScans == 3

\* candidate counts of the scans; 0 is a lookup that found nothing
ScanSizes == {0, 50, 500, 501, 1000, 1001}

\* a call of scan: whether its indicators are valid, and the number of
\* candidates its lookup finds
ScanCall(valid, n, earlier) ==
    [ pc |-> "entry", valid |-> valid, num_stocks |-> n, earlier |-> earlier,
      before |-> <<scanner.rate_limit_delay, scanner.max_workers, scanner.batch_size>>,
      used |-> << >> ]

InitScans ==
    /\ df = << >>
    /\ buy_signals = << >>
    /\ sell_signals = << >>
    /\ et = [InitFrame EXCEPT !.pc = "idle"]
    /\ accepted = << >>
    /\ sim = [pc |-> "none", buy_indicator |-> "macd", sell_indicator |-> "macd",
              result |-> NoResult]
    /\ request = NoRequest
    /\ settings \in SettingsPool
    /\ scanner = NewMarketScanner(settings)
    /\ detector = NoDetector
    /\ \E valid \in BOOLEAN, n \in ScanSizes : scan = ScanCall(valid, n, << >>)

\* an invalid indicator, or no candidate: the error descriptor is returned
ScanRejected ==
    /\ scan.pc = "entry"
    /\ ~scan.valid \/ scan.num_stocks = 0
    /\ scan' = [scan EXCEPT !.pc = "rejected"]
    /\ UNCHANGED <<tradeVars, sim, request, settings, scanner, detector>>

\* valid indicators and candidates: _adjust_rate_limiting(len(stocks_to_scan))
ScanAdjusts ==
    /\ scan.pc = "entry"
    /\ scan.valid
    /\ scan.num_stocks > 0
    /\ scanner' = AdjustRateLimiting(scanner, scan.num_stocks, settings)
    /\ scan' = [scan EXCEPT !.pc = "adjusted"]
    /\ UNCHANGED <<tradeVars, sim, request, settings, detector>>

\* _scan_stocks reads self.rate_limit_delay, self.max_workers and
\* self.batch_size
ScanRuns ==
    /\ scan.pc = "adjusted"
    /\ scan' = [scan EXCEPT
                  !.pc = "scanned",
                  !.used = <<scanner.rate_limit_delay, scanner.max_workers,
                             scanner.batch_size>>]
    /\ UNCHANGED <<tradeVars, sim, request, settings, scanner, detector>>

\* the next request on the same instance
ScanAgain ==
    /\ scan.pc \in {"rejected", "scanned"}
    /\ Len(scan.earlier) < MaxScans - 1
    /\ \E valid \in BOOLEAN, n \in ScanSizes :
         scan' = ScanCall(valid, n,
                          Append(scan.earlier,
                                 IF scan.pc = "scanned" THEN scan.num_stocks ELSE 0))
    /\ UNCHANGED <<tradeVars, sim, request, settings, scanner, detector>>

NextScans ==
    \/ ScanRejected
    \/ ScanAdjusts
    \/ ScanRuns
    \/ ScanAgain

SpecScans == InitScans /\ [][NextScans]_vars

\* (delay in ms, workers, batch size) of the configuration
Configured == <<settings.rate_limit_delay, settings.max_workers, settings.batch_size>>

\* the values a scan of n candidates is to run with
TierOf(n) ==
    IF n > 1000 THEN <<200, 10, 25>>
    ELSE IF n > 500 THEN <<150, 15, 35>>
    ELSE Configured

\* the values a scan ran with follow from its own candidate count, whatever
\* the scans before it were
UsedByOwnCount ==
    scan.pc = "scanned" => scan.used = TierOf(scan.num_stocks)

\* a rejected scan holds the values the instance had when it was called
RejectedKeeps ==
    scan.pc = "rejected" => Selected = scan.before

SettingsByOwnCount == UsedByOwnCount /\ RejectedKeeps

\* the step that rejects a scan changes no field of the instance
RejectionLeavesScanner ==
    (scan.pc = "entry" /\ scan'.pc = "rejected") => scanner' = scanner

\* C40: over any sequence of scans on one instance the delay, the worker
\* count and the batch size a scan runs with follow from that scan's
\* candidate count alone: the values for more than 1000, for more than 500,
\* and the configured ones at 500 or fewer, also after a larger scan lowered
\* them; a scan rejected with an error descriptor leaves them as they were.
C40_ScanSettingsByOwnCount ==
    /\ []SettingsByOwnCount
    /\ [][RejectionLeavesScanner]_vars

\* a scan of 50 candidates after a scan of 1001: the instance held the
\* lowered values at the call and the scan ran with the configured ones
C40_Witness ==
    /\ scan.pc = "scanned"
    /\ scan.num_stocks = 50
    /\ scan.earlier = <<1001>>
    /\ settings = DefaultSettings
    /\ scan.before = <<200, 10, 25>>
    /\ scan.used = <<100, 20, 50>>

\* a scan rejected after a scan of 501 candidates: the instance keeps the
\* values of that scan
C40_WitnessRejected ==
    /\ scan.pc = "rejected"
    /\ scan.earlier = <<501>>
    /\ settings = DefaultSettings
    /\ Selected = <<150, 15, 35>>

====
